---- MODULE Spec2Model ----
(***************************************************************************)
(* ImmoAlert: the matching-and-conversation engine.                        *)
(*                                                                         *)
(* The persistent stores (users with their criteria, listings, matches,    *)
(* notifications) are the variables; every asynchronous function of the    *)
(* services is a process whose steps are the database / network calls it   *)
(* awaits, so that two invocations interleave exactly where the            *)
(* JavaScript event loop lets them interleave.                             *)
(***************************************************************************)
EXTENDS Integers, Sequences, FiniteSets, TLC

(***************************************************************************)
(* Bounds of the model.                                                    *)
(***************************************************************************)
NumUsers == 2
NumListings == 2
NumPasses == 2

UserIds == 1..NumUsers
PostIds == 1..NumListings
PassIds == 1..NumPasses

(***************************************************************************)
(* Optional fields (TypeScript `?`, Prisma nullable columns).              *)
(***************************************************************************)
Null == -1

\* JavaScript truthiness of an optional number: null, undefined and 0 are falsy.
Truthy(x) == x # Null /\ x # 0

(***************************************************************************)
(* Strings are sequences of one-character strings.                         *)
(***************************************************************************)
UpperToLower ==
  "A" :> "a" @@ "B" :> "b" @@ "C" :> "c" @@ "D" :> "d" @@ "E" :> "e" @@
  "F" :> "f" @@ "G" :> "g" @@ "H" :> "h" @@ "I" :> "i" @@ "J" :> "j" @@
  "K" :> "k" @@ "L" :> "l" @@ "M" :> "m" @@ "N" :> "n" @@ "O" :> "o" @@
  "P" :> "p" @@ "Q" :> "q" @@ "R" :> "r" @@ "S" :> "s" @@ "T" :> "t" @@
  "U" :> "u" @@ "V" :> "v" @@ "W" :> "w" @@ "X" :> "x" @@ "Y" :> "y" @@
  "Z" :> "z" @@ "È" :> "è"

\* String.prototype.toLowerCase
toLowerCase(s) ==
  [i \in 1..Len(s) |-> IF s[i] \in DOMAIN UpperToLower THEN UpperToLower[s[i]] ELSE s[i]]

\* String.prototype.includes
includes(hay, needle) ==
  \E i \in 0..(Len(hay) - Len(needle)) :
     \A j \in 1..Len(needle) : hay[i + j] = needle[j]

\* The string literals of the sources: the locations of listings and criteria
\* (s_) and the words the conversation handlers look for (w_).
Word ==
  [s_Lyon |-> <<"L", "y", "o", "n">>,
   s_lyon |-> <<"l", "y", "o", "n">>,
   s_paris |-> <<"p", "a", "r", "i", "s">>,
   s_empty |-> <<>>,
   w_maison |-> <<"m", "a", "i", "s", "o", "n">>,
   w_house |-> <<"h", "o", "u", "s", "e">>,
   w_appartement |-> <<"a", "p", "p", "a", "r", "t", "e", "m", "e", "n", "t">>,
   w_appart |-> <<"a", "p", "p", "a", "r", "t">>,
   w_apartment |-> <<"a", "p", "a", "r", "t", "m", "e", "n", "t">>,
   w_deux |-> <<"d", "e", "u", "x">>,
   w_both |-> <<"b", "o", "t", "h">>,
   w_tout |-> <<"t", "o", "u", "t">>,
   w_max |-> <<"m", "a", "x">>,
   w_maximum |-> <<"m", "a", "x", "i", "m", "u", "m">>,
   w_pas |-> <<"p", "a", "s">>,
   w_ignore |-> <<"i", "g", "n", "o", "r", "e">>,
   w_peu |-> <<"p", "e", "u">>,
   w_modifier |-> <<"m", "o", "d", "i", "f", "i", "e", "r">>,
   w_change |-> <<"c", "h", "a", "n", "g", "e">>,
   w_criteres |-> <<"c", "r", "i", "t", "è", "r", "e", "s">>,
   w_statut |-> <<"s", "t", "a", "t", "u", "t">>,
   w_status |-> <<"s", "t", "a", "t", "u", "s">>,
   w_aide |-> <<"a", "i", "d", "e">>,
   w_help |-> <<"h", "e", "l", "p">>,
   w_pause |-> <<"p", "a", "u", "s", "e">>,
   w_stop |-> <<"s", "t", "o", "p">>,
   w_oui |-> <<"o", "u", "i">>,
   w_yes |-> <<"y", "e", "s">>,
   w_ok |-> <<"o", "k">>,
   w_parfait |-> <<"p", "a", "r", "f", "a", "i", "t">>,
   w_non |-> <<"n", "o", "n">>,
   w_no |-> <<"n", "o">>,
   w_reprendre |-> <<"r", "e", "p", "r", "e", "n", "d", "r", "e">>,
   w_resume |-> <<"r", "e", "s", "u", "m", "e">>,
   w_start |-> <<"s", "t", "a", "r", "t">>]

(***************************************************************************)
(* Scoring (MatchingService.calculateMatchScore).  The price dimension is  *)
(* a real number, 30 - 100 * diff / price; every score of a listing is     *)
(* kept exactly as a numerator over the denominator ScoreDen(listing).     *)
(***************************************************************************)
MatchThreshold == 60
NotifyThreshold == 70
TypeWeight == 10
PriceWeight == 30
LocationWeight == 25
SurfaceWeight == 20
RoomsWeight == 15

ScoreDen(listing) == IF Truthy(listing.price) THEN listing.price ELSE 1

Abs(x) == IF x < 0 THEN 0 - x ELSE x
Min2(a, b) == IF a <= b THEN a ELSE b
Max2(a, b) == IF a >= b THEN a ELSE b

\* score.type, lines 61-65
TypeScore(listing, criteria) ==
  IF listing.propertyType # "NONE"
     /\ (criteria.propertyType = "BOTH" \/ criteria.propertyType = listing.propertyType)
  THEN TypeWeight ELSE 0

\* score.price as a numerator over ScoreDen(listing), lines 67-82
PriceScoreNum(listing, criteria) ==
  LET den == ScoreDen(listing) IN
  IF Truthy(listing.price) /\ Truthy(criteria.minPrice) /\ Truthy(criteria.maxPrice)
  THEN IF listing.price >= criteria.minPrice /\ listing.price <= criteria.maxPrice
       THEN PriceWeight * den
       ELSE LET diff == Min2(Abs(listing.price - criteria.minPrice),
                             Abs(listing.price - criteria.maxPrice))
            IN  Max2(0, PriceWeight * den - 100 * diff)
  ELSE IF ~Truthy(criteria.minPrice) /\ ~Truthy(criteria.maxPrice)
       THEN PriceWeight * den
       ELSE 0

\* score.location, lines 84-92
LocationScore(listing, criteria) ==
  IF listing.location # Word.s_empty /\ Len(criteria.locations) > 0
     /\ \E k \in 1..Len(criteria.locations) :
           includes(toLowerCase(listing.location), toLowerCase(criteria.locations[k]))
  THEN LocationWeight ELSE 0

\* A surface score that gives the no-preference credit only to a listing
\* that has a surface: the credit of an absent value is tested against it.
SurfaceNeedsValue(listing, criteria) ==
  IF /\ Truthy(listing.surface)
     /\ \/ ~Truthy(criteria.minSurface) /\ ~Truthy(criteria.maxSurface)
        \/ /\ Truthy(criteria.minSurface)
           /\ Truthy(criteria.maxSurface)
           /\ listing.surface >= criteria.minSurface
           /\ listing.surface <= criteria.maxSurface
  THEN SurfaceWeight ELSE 0

\* score.surface, lines 94-101
SurfaceScore(listing, criteria) ==
  IF Truthy(listing.surface) /\ Truthy(criteria.minSurface) /\ Truthy(criteria.maxSurface)
  THEN IF listing.surface >= criteria.minSurface /\ listing.surface <= criteria.maxSurface
       THEN SurfaceWeight ELSE 0
  ELSE IF ~Truthy(criteria.minSurface) /\ ~Truthy(criteria.maxSurface)
       THEN SurfaceWeight ELSE 0

\* score.rooms, lines 103-110
RoomsScore(listing, criteria) ==
  IF Truthy(listing.rooms) /\ Truthy(criteria.minRooms) /\ Truthy(criteria.maxRooms)
  THEN IF listing.rooms >= criteria.minRooms /\ listing.rooms <= criteria.maxRooms
       THEN RoomsWeight ELSE 0
  ELSE IF ~Truthy(criteria.minRooms) /\ ~Truthy(criteria.maxRooms)
       THEN RoomsWeight ELSE 0

calculateMatchScore(listing, criteria) ==
  LET den == ScoreDen(listing)
      t   == TypeScore(listing, criteria)
      p   == PriceScoreNum(listing, criteria)
      l   == LocationScore(listing, criteria)
      s   == SurfaceScore(listing, criteria)
      r   == RoomsScore(listing, criteria)
  IN  [den |-> den, priceNum |-> p, location |-> l, surface |-> s, rooms |-> r,
       type |-> t, totalNum |-> p + (l + s + r + t) * den]

\* score.total >= n, with total = totalNum / den
TotalAtLeast(score, n) == score.totalNum >= n * score.den

\* MatchingService.generateMatchReasons: the reasons in their fixed order.
generateMatchReasons(listing, criteria, score) ==
  (IF score.priceNum >= 25 * score.den THEN <<[kind |-> "price_in", val |-> Null]>>
   ELSE IF score.priceNum > 0 THEN <<[kind |-> "price_near", val |-> Null]>>
   ELSE <<>>)
  \o (IF score.location >= 20 THEN <<[kind |-> "location", val |-> Null]>> ELSE <<>>)
  \o (IF score.surface >= 15 THEN <<[kind |-> "surface", val |-> listing.surface]>> ELSE <<>>)
  \o (IF score.rooms >= 10 THEN <<[kind |-> "rooms", val |-> listing.rooms]>> ELSE <<>>)
  \o (IF score.type >= 8
      THEN <<[kind |-> IF listing.propertyType = "HOUSE" THEN "house" ELSE "apartment",
              val |-> Null]>>
      ELSE <<>>)

(***************************************************************************)
(* Text utilities used by ConversationService.                             *)
(***************************************************************************)

Digits == {"0", "1", "2", "3", "4", "5", "6", "7", "8", "9"}
DigitValue ==
  "0" :> 0 @@ "1" :> 1 @@ "2" :> 2 @@ "3" :> 3 @@ "4" :> 4 @@
  "5" :> 5 @@ "6" :> 6 @@ "7" :> 7 @@ "8" :> 8 @@ "9" :> 9

\* String.prototype.trim
RECURSIVE trimStart(_)
trimStart(s) == IF s # <<>> /\ Head(s) = " " THEN trimStart(Tail(s)) ELSE s
RECURSIVE trimEnd(_)
trimEnd(s) ==
  IF s # <<>> /\ s[Len(s)] = " " THEN trimEnd(SubSeq(s, 1, Len(s) - 1)) ELSE s
trim(s) == trimEnd(trimStart(s))

\* parseInt of a string of digits
RECURSIVE parseInt(_)
parseInt(ds) ==
  IF ds = <<>> THEN 0
  ELSE 10 * parseInt(SubSeq(ds, 1, Len(ds) - 1)) + DigitValue[ds[Len(ds)]]

\* The end of the run of characters from position i on that are digits
\* (isDigit) or are not: the first position past the run.
RECURSIVE RunEnd(_, _, _)
RunEnd(s, i, isDigit) ==
  IF i <= Len(s) /\ ((s[i] \in Digits) = isDigit) THEN RunEnd(s, i + 1, isDigit) ELSE i

\* message.match(/(\d+)[^\d]*(\d+)?/g).map(p => p.replace(/\D/g, '')): each
\* match runs over a number, the text after it and the next number when there
\* is one; its digits are those of both numbers.
RECURSIVE PriceMatchDigits(_, _)
PriceMatchDigits(s, i) ==
  LET start == RunEnd(s, i, FALSE) IN
  IF start > Len(s) THEN <<>>
  ELSE LET e1 == RunEnd(s, start, TRUE)
           g  == RunEnd(s, e1, FALSE)
           e2 == RunEnd(s, g, TRUE)
       IN  <<SubSeq(s, start, e1 - 1) \o SubSeq(s, g, e2 - 1)>> \o PriceMatchDigits(s, e2)

\* prices, line 176: parseInt of each match, the positive ones kept.
RECURSIVE PositiveInts(_)
PositiveInts(ds) ==
  IF ds = <<>> THEN <<>>
  ELSE (IF parseInt(Head(ds)) > 0 THEN <<parseInt(Head(ds))>> ELSE <<>>)
       \o PositiveInts(Tail(ds))
ParsedPrices(message) == PositiveInts(PriceMatchDigits(message, 1))

RECURSIVE SeqMin(_)
SeqMin(q) == IF Len(q) = 1 THEN q[1] ELSE Min2(q[1], SeqMin(Tail(q)))
RECURSIVE SeqMax(_)
SeqMax(q) == IF Len(q) = 1 THEN q[1] ELSE Max2(q[1], SeqMax(Tail(q)))

\* message.match(/(\d+)/): the first number of the message, Null without one.
FirstInt(message) ==
  LET start == RunEnd(message, 1, FALSE) IN
  IF start > Len(message) THEN Null
  ELSE parseInt(SubSeq(message, start, RunEnd(message, start, TRUE) - 1))

\* message.split(/[,;/\-]/)
Separators == {",", ";", "/", "-"}
RECURSIVE split(_)
split(s) ==
  IF \A i \in 1..Len(s) : s[i] \notin Separators THEN <<s>>
  ELSE LET k == CHOOSE i \in 1..Len(s) :
                   s[i] \in Separators /\ \A j \in 1..(i - 1) : s[j] \notin Separators
       IN  <<SubSeq(s, 1, k - 1)>> \o split(SubSeq(s, k + 1, Len(s)))

\* locations, line 203: the trimmed pieces longer than two characters.
RECURSIVE LongTrimmed(_)
LongTrimmed(parts) ==
  IF parts = <<>> THEN <<>>
  ELSE (IF Len(trim(Head(parts))) > 2 THEN <<trim(Head(parts))>> ELSE <<>>)
       \o LongTrimmed(Tail(parts))
ParsedLocations(message) == LongTrimmed(split(message))

\* The "no preference" test of steps 4 and 5, lines 215 and 227.
SaysNoPreference(text) ==
  includes(text, <<"p", "a", "s">>) \/ includes(text, <<"i", "g", "n", "o", "r", "e">>)
  \/ includes(text, <<"p", "e", "u">>)


(***************************************************************************)
(* Inputs.                                                                 *)
(***************************************************************************)
\* prisma.propertyCriteria.create in createNewUser: propertyType BOTH, no
\* bounds, no locations.
EmptyCriteria ==
  [propertyType |-> "BOTH", minPrice |-> Null, maxPrice |-> Null, locations |-> <<>>,
   minRooms |-> Null, maxRooms |-> Null, minSurface |-> Null, maxSurface |-> Null]

\* Criteria a user can hold: written by the conversation flow (a price range,
\* at least one location, minimum bounds only) or by the admin's updateUser.
CriteriaHouseLyon ==
  [EmptyCriteria EXCEPT !.propertyType = "HOUSE", !.minPrice = 150000,
                        !.maxPrice = 250000, !.locations = <<Word.s_Lyon>>]
CriteriaApartmentParis ==
  [EmptyCriteria EXCEPT !.propertyType = "APARTMENT", !.minPrice = 150000,
                        !.maxPrice = 250000, !.locations = <<Word.s_paris>>]
CriteriaMaxOnly ==
  [EmptyCriteria EXCEPT !.propertyType = "APARTMENT", !.minPrice = 0,
                        !.maxPrice = 250000, !.locations = <<Word.s_paris>>]
CriteriaInputs == {CriteriaHouseLyon, CriteriaApartmentParis, CriteriaMaxOnly}

\* What the extraction client returns for a post, after validateExtractedData;
\* confidence is in hundredths.
NoExtraction ==
  [price |-> Null, location |-> Word.s_empty, surface |-> Null, rooms |-> Null,
   propertyType |-> "NONE", confidence |-> 0]
GoodExtraction ==
  [price |-> 200000, location |-> Word.s_lyon, surface |-> 50, rooms |-> 3,
   propertyType |-> "HOUSE", confidence |-> 90]
LowConfidenceExtraction == [GoodExtraction EXCEPT !.confidence = 30]
ExtractionResults == {GoodExtraction, LowConfidenceExtraction, NoExtraction}

\* More of what the extraction can return: the confidence at the threshold,
\* no price, no location, neither, prices at and beyond the ends of the
\* accepted range.
ExtractionOutcomes ==
  ExtractionResults
  \cup {[GoodExtraction EXCEPT !.confidence = c] : c \in {59, 60}}
  \cup {[GoodExtraction EXCEPT !.price = price] :
          price \in {Null, 9999, 10000, 10000000, 10000001}}
  \cup {[GoodExtraction EXCEPT !.location = Word.s_empty],
        [GoodExtraction EXCEPT !.price = Null, !.location = Word.s_empty]}

\* The images a scraped post carries (post.images).
PostImages(postId) == IF postId = 1 THEN 4 ELSE 0

(***************************************************************************)
(* State.                                                                  *)
(***************************************************************************)
VARIABLES
  users,          \* User table with the 1:1 PropertyCriteria row
  listings,       \* ScrapedListing table, keyed by postId
  matches,        \* Match table: a sequence, the index is the id
  notifications,  \* Notification table
  pass,           \* the in-flight processAllMatches invocations
  job,            \* ScraperJob: the tasks it scheduled and its three task fields
  enrich,         \* the in-flight processUnprocessedListings invocation
  scrape,         \* the in-flight processPost call of each scrape
  whapi,          \* what notifyUser asked of the delivery client, per pairing
  contexts,       \* ConversationService.contexts: user -> context object, 0 for none
  heap,           \* the MessageContext objects, by reference
  handlers,       \* the in-flight handleIncomingMessage invocations
  conversations,  \* Conversation table: the log of each user
  received        \* inbound messages accepted by the webhook so far

conversationVars == <<contexts, heap, handlers, conversations, received>>

vars == <<users, listings, matches, notifications, pass, job, enrich, scrape, whapi,
          contexts, heap, handlers, conversations, received>>

Pairs == UserIds \X PostIds

NoListing(id) ==
  [id |-> id, exists |-> FALSE, isValid |-> FALSE, aiEnriched |-> FALSE,
   price |-> Null, location |-> Word.s_empty, surface |-> Null, rooms |-> Null,
   propertyType |-> "NONE", images |-> 0, extractedData |-> FALSE,
   confidenceScore |-> Null, sentToUsers |-> <<>>, rows |-> 0]

IdlePass ==
  [pc |-> "idle", queue |-> <<>>, listing |-> NoListing(1), cands |-> <<>>,
   matchId |-> 0, message |-> "none", image |-> 0, notifiedCount |-> 0,
   totalNotified |-> 0, processed |-> 0, created |-> {}, textFailed |-> {},
   imageFailed |-> {}]

\* manual: the page left to a pass that an administrator triggered.
IdleEnrich == [pc |-> "idle", queue |-> <<>>, manual |-> <<>>]

\* The scrapes that can be in flight together: the scheduled one and the one
\* an administrator triggers.
Scrapers == {"scheduled", "manual"}

IdleScrape == [pc |-> "idle", post |-> 1, outcome |-> "none"]

\* ScraperJob as constructed: nothing scheduled, the three fields null (0).
\* tasks: what cron.schedule has returned so far, in order.
NoJob == [tasks |-> <<>>, scrapeTask |-> 0, enrichTask |-> 0, matchTask |-> 0]

NoCalls == [attempts |-> 0, texts |-> 0, delivered |-> 0, images |-> 0, noops |-> 0]

(***************************************************************************)
(* Enrichment (AIClassifierService).                                       *)
(***************************************************************************)
\* AI_CONFIDENCE_THRESHOLD, default 0.6, in hundredths.
ConfidenceThreshold == 60
MinSanePrice == 10000
MaxSanePrice == 10000000
EnrichPageSize == 50

\* A validity test that looks at the confidence only: the two other
\* conditions are tested against it.
ValidWhenConfident(data) == data.confidence >= ConfidenceThreshold

\* AIClassifierService.isValidListing
isValidListing(data) ==
  IF data.confidence < ConfidenceThreshold THEN FALSE
  ELSE IF ~Truthy(data.price) /\ data.location = Word.s_empty THEN FALSE
  ELSE IF Truthy(data.price) /\ (data.price < MinSanePrice \/ data.price > MaxSanePrice)
       THEN FALSE
  ELSE TRUE

\* The row written by enrichListing: an undefined extracted field leaves the
\* column as it was.
EnrichedRow(row, extracted) ==
  [row EXCEPT !.price = IF extracted.price # Null THEN extracted.price ELSE @,
              !.location = IF extracted.location # Word.s_empty THEN extracted.location ELSE @,
              !.surface = IF extracted.surface # Null THEN extracted.surface ELSE @,
              !.rooms = IF extracted.rooms # Null THEN extracted.rooms ELSE @,
              !.propertyType = IF extracted.propertyType # "NONE"
                               THEN extracted.propertyType ELSE @,
              !.extractedData = TRUE,
              !.confidenceScore = extracted.confidence,
              !.aiEnriched = TRUE,
              !.isValid = isValidListing(extracted)]

\* The sequences that list every element of S once.
Orderings(S) ==
  {q \in [1..Cardinality(S) -> S] : \A i, j \in 1..Cardinality(S) : q[i] = q[j] => i = j}

\* findMany(... take: n) with no orderBy: n rows (all, when there are fewer)
\* in an order the database chooses.
TakePages(S, n) ==
  UNION {Orderings(T) : T \in {X \in SUBSET S : Cardinality(X) = Min2(n, Cardinality(S))}}

\* FacebookScraperService.processPost: a post not yet stored becomes a raw
\* listing (isValid true, not enriched).
processPost(i) ==
  /\ ~listings[i].exists
  /\ listings' = [listings EXCEPT ![i] =
       [NoListing(i) EXCEPT !.exists = TRUE, !.isValid = TRUE, !.images = PostImages(i),
                            !.rows = 1]]
  /\ UNCHANGED <<users, matches, notifications, pass, job, enrich, scrape, whapi,
               conversationVars>>

\* processPost up to its create, for scrape s and any post of the page, a
\* post seen before included: the call returns when findUnique finds the
\* post id or the keywords of the group filter the post out.
processPostFind(s, i) ==
  /\ scrape[s].pc = "idle"
  /\ \E hasKeyword \in BOOLEAN :
       scrape' = [scrape EXCEPT ![s] =
         IF listings[i].exists THEN [pc |-> "idle", post |-> i, outcome |-> "existing"]
         ELSE IF ~hasKeyword THEN [pc |-> "idle", post |-> i, outcome |-> "filtered"]
         ELSE [pc |-> "create", post |-> i, outcome |-> "none"]]
  /\ UNCHANGED <<users, listings, matches, notifications, pass, job, enrich, whapi,
               conversationVars>>

\* The unique index on the post id: an insert succeeds when no row carries it.
UniquePostId(i) == listings[i].rows = 0

\* A write that replaces the row of the post id when there is one: the
\* properties of ingestion are tested against it.
processPostUpsert(s) ==
  /\ scrape[s].pc = "create"
  /\ listings' = [listings EXCEPT ![scrape[s].post] =
       [NoListing(scrape[s].post) EXCEPT !.exists = TRUE, !.isValid = TRUE,
          !.images = PostImages(scrape[s].post), !.rows = 1]]
  /\ scrape' = [scrape EXCEPT ![s] = [@ EXCEPT !.pc = "idle", !.outcome = "created"]]
  /\ UNCHANGED <<users, matches, notifications, pass, job, enrich, whapi, conversationVars>>

\* processPost from its create on: the insert throws when another scrape
\* has stored the post id since findUnique, and scrapeAllGroups catches it.
processPostCreate(s) ==
  /\ scrape[s].pc = "create"
  /\ LET i == scrape[s].post IN
     IF UniquePostId(i)
     THEN /\ listings' = [listings EXCEPT ![i] =
               [NoListing(i) EXCEPT !.exists = TRUE, !.isValid = TRUE,
                                    !.images = PostImages(i), !.rows = 1]]
          /\ scrape' = [scrape EXCEPT ![s] = [@ EXCEPT !.pc = "idle", !.outcome = "created"]]
     ELSE /\ scrape' = [scrape EXCEPT ![s] = [@ EXCEPT !.pc = "idle", !.outcome = "rejected"]]
          /\ UNCHANGED listings
  /\ UNCHANGED <<users, matches, notifications, pass, job, enrich, whapi, conversationVars>>

\* AIClassifierService.processUnprocessedListings: the page of listings to enrich.
processUnprocessedListings ==
  /\ enrich.pc = "idle"
  /\ LET todo == {i \in PostIds : listings[i].exists /\ ~listings[i].aiEnriched
                                   /\ listings[i].isValid}
     IN  /\ todo # {}
         /\ \E q \in TakePages(todo, EnrichPageSize) :
              enrich' = [enrich EXCEPT !.pc = "enriching", !.queue = q]
  /\ UNCHANGED <<users, listings, matches, notifications, pass, job, scrape, whapi,
               conversationVars>>

\* AIClassifierService.enrichListing on the next listing of the page, for
\* what extractPropertyData returned.
enrichListingWith(extracted) ==
  /\ enrich.pc = "enriching"
  /\ listings' = [listings EXCEPT ![Head(enrich.queue)] = EnrichedRow(@, extracted)]
  /\ enrich' = IF Tail(enrich.queue) = <<>>
               THEN [enrich EXCEPT !.pc = "idle", !.queue = <<>>]
               ELSE [enrich EXCEPT !.queue = Tail(@)]
  /\ UNCHANGED <<users, matches, notifications, pass, job, scrape, whapi, conversationVars>>

enrichListing == \E extracted \in ExtractionResults : enrichListingWith(extracted)

\* AdminController.triggerEnrichment: processUnprocessedListings started
\* again, not awaited, whether or not the scheduled pass is running.
triggerEnrichment ==
  /\ enrich.manual = <<>>
  /\ LET todo == {i \in PostIds : listings[i].exists /\ ~listings[i].aiEnriched
                                   /\ listings[i].isValid}
     IN  /\ todo # {}
         /\ \E q \in TakePages(todo, EnrichPageSize) :
              enrich' = [enrich EXCEPT !.manual = q]
  /\ UNCHANGED <<users, listings, matches, notifications, pass, job, scrape, whapi,
               conversationVars>>

\* enrichListing on the next listing of the page of the triggered pass: the
\* row it got from findMany is not read again.
enrichListingTriggered ==
  /\ enrich.manual # <<>>
  /\ \E extracted \in ExtractionResults :
       listings' = [listings EXCEPT ![Head(enrich.manual)] = EnrichedRow(@, extracted)]
  /\ enrich' = [enrich EXCEPT !.manual = Tail(@)]
  /\ UNCHANGED <<users, matches, notifications, pass, job, scrape, whapi, conversationVars>>

(***************************************************************************)
(* Matching (MatchingService).                                             *)
(***************************************************************************)
MatchPageSize == 100
MaxImagesSent == 3

OtherVarsOfMatching == <<users, job, enrich, scrape, conversationVars>>

\* A gate that forgets the validity flag: the properties of the gate are
\* tested against it.
EligibleWhenEnriched(listing) == listing.aiEnriched

\* The gate of findMatchesForListing, lines 19-21.
EligibleForMatching(listing) == listing.isValid /\ listing.aiEnriched

\* prisma.user.findMany({ where: { isActive: true }, include: { criteria: true } })
ActiveUsers == {u \in UserIds : users[u].exists /\ users[u].isActive}

\* A MatchResult that asks for a notification as soon as the Match is kept:
\* the two thresholds are told apart against it.
NotifyEveryMatch(listing, u) ==
  LET score == calculateMatchScore(listing, users[u].criteria) IN
  [userId |-> u, listingId |-> listing.id,
   scoreNum |-> score.totalNum, scoreDen |-> score.den,
   reasons |-> generateMatchReasons(listing, users[u].criteria, score),
   shouldNotify |-> TotalAtLeast(score, MatchThreshold)]

\* One MatchResult, lines 33-44.
MatchResultFor(listing, u) ==
  LET score == calculateMatchScore(listing, users[u].criteria) IN
  [userId |-> u, listingId |-> listing.id,
   scoreNum |-> score.totalNum, scoreDen |-> score.den,
   reasons |-> generateMatchReasons(listing, users[u].criteria, score),
   shouldNotify |-> TotalAtLeast(score, NotifyThreshold)]

\* The users kept by the loop of lines 30-46.
KeptUser(listing, u) ==
  /\ users[u].hasCriteria
  /\ TotalAtLeast(calculateMatchScore(listing, users[u].criteria), MatchThreshold)

RECURSIVE InsertByScoreDesc(_, _)
InsertByScoreDesc(sorted, m) ==
  IF sorted = <<>> THEN <<m>>
  ELSE IF Head(sorted).scoreNum >= m.scoreNum
       THEN <<Head(sorted)>> \o InsertByScoreDesc(Tail(sorted), m)
       ELSE <<m>> \o sorted

\* matches.sort((a, b) => b.score - a.score): stable, descending.
RECURSIVE SortByScoreDesc(_)
SortByScoreDesc(ms) ==
  IF ms = <<>> THEN <<>>
  ELSE InsertByScoreDesc(SortByScoreDesc(SubSeq(ms, 1, Len(ms) - 1)), ms[Len(ms)])

RECURSIVE MatchResultsFrom(_, _)
MatchResultsFrom(listing, u) ==
  IF u > NumUsers THEN <<>>
  ELSE (IF u \in ActiveUsers /\ KeptUser(listing, u)
        THEN <<MatchResultFor(listing, u)>> ELSE <<>>)
       \o MatchResultsFrom(listing, u + 1)

\* MatchingService.findMatchesForListing
findMatchesForListing(listing) ==
  IF ~EligibleForMatching(listing) THEN <<>>
  ELSE SortByScoreDesc(MatchResultsFrom(listing, 1))

\* Lookups that miss: no lookup at all, and a lookup of the pairings already
\* notified only.  The deduplication properties are tested against them.
NoExistenceCheck(userId, listingId) == FALSE
ExistingNotifiedMatch(userId, listingId) ==
  \E k \in 1..Len(matches) :
     matches[k].userId = userId /\ matches[k].listingId = listingId /\ matches[k].isNotified

\* prisma.match.findFirst({ where: { userId, listingId } }), lines 161-170.
ExistingMatch(userId, listingId) ==
  \E k \in 1..Len(matches) :
     matches[k].userId = userId /\ matches[k].listingId = listingId

\* prisma.match.findUnique({ where: { id }, include: { user: true, listing:
\* true } }): the match with the scalar columns of its user (the criteria
\* relation is not included) and its listing.
Undefined == [undefined |-> TRUE]
FieldOf(rec, name) == IF name \in DOMAIN rec THEN rec[name] ELSE Undefined
MatchWithUserAndListing(matchId) ==
  LET m == matches[matchId] IN
  [isNotified |-> m.isNotified, userId |-> m.userId, listingId |-> m.listingId,
   user |-> [id |-> m.userId,
             conversationState |-> users[m.userId].conversationState,
             isActive |-> users[m.userId].isActive],
   listing |-> listings[m.listingId]]

\* The prompt of generateUserMessage (lines 554-578) is built before the try:
\* it dereferences listing.extractedData and userCriteria.
PromptThrows(listing, userCriteria) ==
  ~listing.extractedData \/ userCriteria = Undefined

\* AIClassifierService.generateUserMessage: the AI text, or the static
\* template when the AI call fails or answers nothing.
generateUserMessage(listing, userCriteria, aiReply) ==
  IF PromptThrows(listing, userCriteria) THEN "throw"
  ELSE IF aiReply = "text" THEN "ai" ELSE "default"

\* MatchingService.processAllMatches, lines 335-343: the page of listings,
\* of at most take rows, that the query returns.
processAllMatchesTake(p, take) ==
  /\ pass[p].pc = "idle"
  /\ LET eligible == {i \in PostIds : listings[i].exists /\ listings[i].isValid
                                       /\ listings[i].aiEnriched}
     IN  \E q \in TakePages(eligible, take) :
           pass' = [pass EXCEPT ![p] =
             [IdlePass EXCEPT !.pc = "loop",
                              !.queue = [k \in 1..Len(q) |-> listings[q[k]]],
                              !.processed = Len(q)]]
  /\ UNCHANGED <<listings, matches, notifications, whapi, OtherVarsOfMatching>>

processAllMatches(p) == processAllMatchesTake(p, MatchPageSize)

\* MatchingService.processMatches called on its own with the stored listing
\* i: a page of one listing that no query has filtered.
processMatchesCall(p, i) ==
  /\ pass[p].pc = "idle"
  /\ listings[i].exists
  /\ pass' = [pass EXCEPT ![p] = [IdlePass EXCEPT !.pc = "loop", !.queue = <<listings[i]>>]]
  /\ UNCHANGED <<listings, matches, notifications, whapi, OtherVarsOfMatching>>

\* processAllMatches, lines 350-353: the page is done.
processAllMatchesReturn(p) ==
  /\ pass[p].pc = "loop"
  /\ pass[p].queue = <<>>
  /\ pass' = [pass EXCEPT ![p] = IdlePass]
  /\ UNCHANGED <<listings, matches, notifications, whapi, OtherVarsOfMatching>>

\* processMatches, lines 155-156: the candidates of the next listing of the page.
processMatches(p) ==
  /\ pass[p].pc = "loop"
  /\ pass[p].queue # <<>>
  /\ LET listing == Head(pass[p].queue)
         found   == findMatchesForListing(listing)
     IN  pass' = [pass EXCEPT ![p] =
           [@ EXCEPT !.listing = listing, !.cands = found, !.notifiedCount = 0,
                     !.created = {}, !.textFailed = {}, !.imageFailed = {},
                     !.pc = IF found = <<>> THEN "ret" ELSE "findFirst"]]
  /\ UNCHANGED <<listings, matches, notifications, whapi, OtherVarsOfMatching>>

\* The for loop of processMatches moves to its next candidate.
NextCandidate(r) ==
  [r EXCEPT !.cands = Tail(@), !.matchId = 0, !.message = "none", !.image = 0,
            !.pc = IF Tail(r.cands) = <<>> THEN "ret" ELSE "findFirst"]

\* processMatches, lines 160-170.
matchFindFirst(p) ==
  /\ pass[p].pc = "findFirst"
  /\ LET m == Head(pass[p].cands) IN
       pass' = [pass EXCEPT ![p] =
         IF ExistingMatch(m.userId, m.listingId) THEN NextCandidate(@)
         ELSE [@ EXCEPT !.pc = "create"]]
  /\ UNCHANGED <<listings, matches, notifications, whapi, OtherVarsOfMatching>>

\* A creation that stores the Match as already notified: the property of the
\* created row is tested against it.
matchCreateNotified(p) ==
  /\ pass[p].pc = "create"
  /\ LET m == Head(pass[p].cands) IN
       /\ matches' = Append(matches,
            [userId |-> m.userId, listingId |-> m.listingId,
             scoreNum |-> m.scoreNum, scoreDen |-> m.scoreDen, reasons |-> m.reasons,
             isNotified |-> TRUE, notifiedAt |-> TRUE,
             scoredOn |-> [isValid |-> pass[p].listing.isValid,
                           aiEnriched |-> pass[p].listing.aiEnriched]])
       /\ pass' = [pass EXCEPT ![p] =
            [@ EXCEPT !.pc = "push", !.matchId = Len(matches) + 1,
                      !.created = @ \cup {Len(matches) + 1}]]
  /\ UNCHANGED <<listings, notifications, whapi, OtherVarsOfMatching>>

\* processMatches, lines 172-181.
matchCreate(p) ==
  /\ pass[p].pc = "create"
  /\ LET m == Head(pass[p].cands) IN
       /\ matches' = Append(matches,
            [userId |-> m.userId, listingId |-> m.listingId,
             scoreNum |-> m.scoreNum, scoreDen |-> m.scoreDen, reasons |-> m.reasons,
             isNotified |-> FALSE, notifiedAt |-> FALSE,
             scoredOn |-> [isValid |-> pass[p].listing.isValid,
                           aiEnriched |-> pass[p].listing.aiEnriched]])
       /\ pass' = [pass EXCEPT ![p] =
            [@ EXCEPT !.pc = "push", !.matchId = Len(matches) + 1,
                      !.created = @ \cup {Len(matches) + 1}]]
  /\ UNCHANGED <<listings, notifications, whapi, OtherVarsOfMatching>>

\* A step after the creation that leaves sentToUsers alone: the property of
\* sentToUsers is tested against it.
listingPushSkipped(p) ==
  /\ pass[p].pc = "push"
  /\ LET m == Head(pass[p].cands) IN
       pass' = [pass EXCEPT ![p] =
         IF m.shouldNotify THEN [@ EXCEPT !.pc = "notifyLoad"] ELSE NextCandidate(@)]
  /\ UNCHANGED <<listings, matches, notifications, whapi, OtherVarsOfMatching>>

\* processMatches, lines 183-197: sentToUsers, then the notification decision.
listingPushSentTo(p) ==
  /\ pass[p].pc = "push"
  /\ LET m == Head(pass[p].cands) IN
       /\ listings' = [listings EXCEPT ![m.listingId].sentToUsers = Append(@, m.userId)]
       /\ pass' = [pass EXCEPT ![p] =
            IF m.shouldNotify THEN [@ EXCEPT !.pc = "notifyLoad"] ELSE NextCandidate(@)]
  /\ UNCHANGED <<matches, notifications, whapi, OtherVarsOfMatching>>

\* A notifyUser whose error escapes processMatches: the loop is abandoned.
NotifyEscapes(r) == [r EXCEPT !.pc = "ret"]

\* notifyUser returned (its catch swallows every error): notifiedCount++,
\* lines 195-196.
NotifyReturned(r) ==
  IF r.cands = <<>> THEN IdlePass  \* called on its own: back to the caller
  ELSE NextCandidate([r EXCEPT !.notifiedCount = @ + 1])

\* A guard that lets every Match through: the guard's property is tested
\* against it.
NeverAlreadyNotified(match) == FALSE

\* The guard of notifyUser, lines 218-220 (the Match was just loaded).
AlreadyNotified(match) == match.isNotified

\* MatchingService.notifyUser called on its own with the id of a stored Match.
MaxDirectCalls == 2
notifyUserCall(p, k) ==
  /\ pass[p].pc = "idle"
  /\ k \in 1..Len(matches)
  /\ LET calls == whapi[<<matches[k].userId, matches[k].listingId>>] IN
       calls.attempts + calls.noops < MaxDirectCalls
  /\ pass' = [pass EXCEPT ![p] = [IdlePass EXCEPT !.pc = "notifyLoad", !.matchId = k]]
  /\ UNCHANGED <<listings, matches, notifications, whapi, OtherVarsOfMatching>>

\* MatchingService.notifyUser, one awaited call at a time.
notifyUser(p) ==
  LET r    == pass[p]
      pair == <<matches[r.matchId].userId, matches[r.matchId].listingId>>
  IN
  /\ r.pc \in {"notifyLoad", "notifyAi", "notifyText", "notifyImage",
               "notifyUpdate", "notifyRecord"}
  /\ CASE r.pc = "notifyLoad" ->
            \* lines 210-227: load, guard, build the prompt
            LET match == MatchWithUserAndListing(r.matchId) IN
            IF AlreadyNotified(match)
            THEN /\ pass' = [pass EXCEPT ![p] = NotifyReturned(r)]
                 /\ whapi' = [whapi EXCEPT ![pair].noops = @ + 1]
                 /\ UNCHANGED <<matches, notifications>>
            ELSE /\ whapi' = [whapi EXCEPT ![pair].attempts = @ + 1]
                 /\ pass' = [pass EXCEPT ![p] =
                      IF PromptThrows(match.listing, FieldOf(match.user, "criteria"))
                      THEN NotifyReturned(r)
                      ELSE [r EXCEPT !.pc = "notifyAi"]]
                 /\ UNCHANGED <<matches, notifications>>
       [] r.pc = "notifyAi" ->
            \* lines 580-592, then sendText is called (line 230)
            /\ \E aiReply \in {"text", "empty", "error"} :
                 LET match == MatchWithUserAndListing(r.matchId) IN
                 pass' = [pass EXCEPT ![p] =
                   [r EXCEPT !.pc = "notifyText",
                             !.message = generateUserMessage(match.listing,
                                            FieldOf(match.user, "criteria"), aiReply)]]
            /\ UNCHANGED <<matches, notifications, whapi>>
       [] r.pc = "notifyText" ->
            \* line 230: the delivery client acknowledges or fails
            /\ \E ack \in BOOLEAN :
                 /\ whapi' = [whapi EXCEPT ![pair].texts = @ + 1,
                                           ![pair].delivered = IF ack THEN @ + 1 ELSE @]
                 /\ pass' = [pass EXCEPT ![p] =
                      IF ~ack THEN NotifyReturned([r EXCEPT !.textFailed = @ \cup {r.matchId}])
                      ELSE IF listings[pair[2]].images > 0
                           THEN [r EXCEPT !.pc = "notifyImage", !.image = 1]
                           ELSE [r EXCEPT !.pc = "notifyUpdate"]]
            /\ UNCHANGED <<matches, notifications>>
       [] r.pc = "notifyImage" ->
            \* lines 233-238: images.slice(0, 3), one sendImage each
            /\ whapi' = [whapi EXCEPT ![pair].images = @ + 1]
            /\ \E ack \in BOOLEAN :
                 pass' = [pass EXCEPT ![p] =
                   IF ~ack THEN NotifyReturned([r EXCEPT !.imageFailed = @ \cup {r.matchId}])
                   ELSE IF r.image < Min2(MaxImagesSent, listings[pair[2]].images)
                        THEN [r EXCEPT !.image = @ + 1]
                        ELSE [r EXCEPT !.pc = "notifyUpdate"]]
            /\ UNCHANGED <<matches, notifications>>
       [] r.pc = "notifyUpdate" ->
            \* lines 241-247
            /\ matches' = [matches EXCEPT ![r.matchId].isNotified = TRUE,
                                          ![r.matchId].notifiedAt = TRUE]
            /\ pass' = [pass EXCEPT ![p] = [r EXCEPT !.pc = "notifyRecord"]]
            /\ UNCHANGED <<notifications, whapi>>
       [] r.pc = "notifyRecord" ->
            \* lines 250-259
            /\ notifications' = Append(notifications,
                 [userId |-> pair[1], relatedEntityId |-> pair[2], message |-> r.message])
            /\ pass' = [pass EXCEPT ![p] = NotifyReturned(r)]
            /\ UNCHANGED <<matches, whapi>>
  /\ UNCHANGED <<listings, OtherVarsOfMatching>>

\* processAllMatches, lines 346-347: processMatches returned notifiedCount.
processMatchesReturn(p) ==
  /\ pass[p].pc = "ret"
  /\ pass' = [pass EXCEPT ![p] =
       [@ EXCEPT !.pc = "loop", !.queue = Tail(@),
                 !.totalNotified = @ + pass[p].notifiedCount]]
  /\ UNCHANGED <<listings, matches, notifications, whapi, OtherVarsOfMatching>>

(***************************************************************************)
(* Administration (UserController).                                        *)
(***************************************************************************)
\* UserController.updateUser with a body that carries criteria only: the
\* criteria row is replaced (upsert), the other columns are left alone.
updateUser(u, criteria) ==
  /\ users[u].exists
  /\ users[u].criteria # criteria
  /\ users' = [users EXCEPT ![u].criteria = criteria, ![u].hasCriteria = TRUE]
  /\ UNCHANGED <<listings, matches, notifications, pass, job, enrich, scrape, whapi, conversationVars>>

(***************************************************************************)
(* Conversation (ConversationService, WebhookController).                  *)
(***************************************************************************)
NumHandlers == 2
MaxMessages == 5
MaxBurst == 3

HandlerIds == 1..NumHandlers
ObjIds == 1..(NumUsers + NumHandlers)

\* Texts of inbound messages, as typed: whole sentences and commands (m_),
\* bare answers (t_).
Text ==
  [m_oui |-> <<"O", "U", "I">>,
   m_pause |-> <<"P", "a", "u", "s", "e">>,
   m_reprendre |-> <<"r", "e", "p", "r", "e", "n", "d", "r", "e">>,
   m_modifier |-> <<"m", "o", "d", "i", "f", "i", "e", "r">>,
   m_bonjour |-> <<"b", "o", "n", "j", "o", "u", "r">>,
   m_maison |-> <<"U", "n", "e", " ", "m", "a", "i", "s", "o", "n">>,
   m_250000 |-> <<"2", "5", "0", "0", "0", "0", " ", "F", "C", "F", "A">>,
   m_Lyon |-> <<"L", "y", "o", "n">>,
   m_pas_important |-> <<"P", "a", "s", " ", "i", "m", "p", "o", "r", "t", "a", "n", "t">>,
   t_250000 |-> <<"2", "5", "0", "0", "0", "0">>,
   t_pas_important |-> <<"p", "a", "s", " ", "i", "m", "p", "o", "r", "t", "a", "n", "t">>,
   m_maximum_5000 |-> <<"M", "a", "x", "i", "m", "u", "m", " ", "5", "0", "0", "0">>,
   t_5000 |-> <<"5", "0", "0", "0">>,
   m_entre_1000_et_3000 |->
     <<"E", "n", "t", "r", "e", " ", "1", "0", "0", "0", " ", "e", "t", " ", "3", "0", "0", "0">>,
   t_ok |-> <<"o", "k">>,
   m_3_chambres |-> <<"3", " ", "c", "h", "a", "m", "b", "r", "e", "s">>,
   m_Modifier |-> <<"M", "o", "d", "i", "f", "i", "e", "r">>,
   m_CHANGE |-> <<"C", "H", "A", "N", "G", "E">>,
   m_CRITERES |-> <<"C", "R", "I", "T", "È", "R", "E", "S">>,
   m_STOP |-> <<"S", "T", "O", "P", " ">>,
   m_Non |-> <<"N", "o", "n">>]

\* The answers of a collection pass.
CollectAnswers == {Word.w_maison, Text.t_250000, Text.m_Lyon, Text.t_pas_important}

\* Answers to the prompts of the collection: prices with a keyword, alone and
\* as a range, a text too short to be a zone, a number of rooms.
AnswerTexts ==
  {Text.m_maximum_5000, Text.t_5000, Text.m_entre_1000_et_3000, Text.t_ok,
   Text.m_3_chambres, Text.m_bonjour, Text.m_Lyon, Text.t_pas_important, Word.w_maison}

\* Commands, as typed.
CommandTexts ==
  {Text.m_Modifier, Text.m_CHANGE, Text.m_CRITERES, Text.m_pause, Text.m_STOP,
   Text.m_oui, Text.m_Non, Text.m_bonjour}

\* MessageContext['data'] with every field undefined.
EmptyData ==
  [propertyType |-> "NONE", minPrice |-> Null, maxPrice |-> Null, locations |-> <<>>,
   minRooms |-> Null, minSurface |-> Null]

\* { step: 1, data: {} }
NewContext == [step |-> 1, data |-> EmptyData]

\* What is left to do of a handleIncomingMessage invocation: the calls it
\* awaits and the synchronous sections that touch the contexts map, in order.
Op(name) ==
  [op |-> name, state |-> "none", activate |-> FALSE, msg |-> "none", data |-> EmptyData]

\* An update that always sets isActive: what a state change alone leaves
\* untouched is tested against it.
UpdateOpActivating(state, activate) ==
  [Op("update") EXCEPT !.state = state, !.activate = TRUE]

\* prisma.user.update of the conversation state, with isActive: true or without.
UpdateOp(state, activate) == [Op("update") EXCEPT !.state = state, !.activate = activate]

\* ConversationService.sendMessage: sendText, findUnique, conversation.create.
sendMessage(msg) ==
  <<[Op("send") EXCEPT !.msg = msg], Op("sendFind"), [Op("sendLog") EXCEPT !.msg = msg]>>

\* A welcome that leaves the contexts map alone: the first contact is tested
\* against it.
WelcomeWithoutContext ==
  sendMessage("welcome") \o <<UpdateOp("COLLECTING_CRITERIA", FALSE)>>

\* ConversationService.sendWelcomeMessage
sendWelcomeMessage ==
  sendMessage("welcome") \o <<UpdateOp("COLLECTING_CRITERIA", FALSE), Op("ctxNew")>>

\* ConversationService.createNewUser
createNewUser == <<Op("create"), Op("createCriteria")>>

\* ConversationService.handleIdleState
handleIdleState(message) ==
  LET text == trim(toLowerCase(message)) IN
  IF text \in {Word.w_modifier, Word.w_change, Word.w_criteres}
  THEN <<UpdateOp("COLLECTING_CRITERIA", FALSE), Op("ctxNew")>> \o sendMessage("askType")
  ELSE IF text \in {Word.w_statut, Word.w_status} THEN <<Op("statusFind")>>
  ELSE IF text \in {Word.w_aide, Word.w_help} THEN sendMessage("help")
  ELSE IF text \in {Word.w_pause, Word.w_stop}
       THEN <<UpdateOp("PAUSED", FALSE)>> \o sendMessage("paused")
  ELSE sendMessage("menu")

\* A confirmation that starts the collection over on anything but a yes: the
\* reminder branch is tested against it.
ConfirmOrRestart(message) ==
  IF trim(toLowerCase(message)) \in {Word.w_oui, Word.w_yes, Word.w_ok, Word.w_parfait}
  THEN <<UpdateOp("ACTIVE", TRUE)>> \o sendMessage("confirmed")
  ELSE <<UpdateOp("COLLECTING_CRITERIA", FALSE), Op("ctxNew")>> \o sendMessage("restart")

\* ConversationService.handleConfirmation
handleConfirmation(message) ==
  LET text == trim(toLowerCase(message)) IN
  IF text \in {Word.w_oui, Word.w_yes, Word.w_ok, Word.w_parfait}
  THEN <<UpdateOp("ACTIVE", TRUE)>> \o sendMessage("confirmed")
  ELSE IF text \in {Word.w_non, Word.w_no, Word.w_modifier, Word.w_change}
       THEN <<UpdateOp("COLLECTING_CRITERIA", FALSE), Op("ctxNew")>> \o sendMessage("restart")
  ELSE sendMessage("confirmRetry")

\* ConversationService.handleActiveState
handleActiveState(message) ==
  LET text == trim(toLowerCase(message)) IN
  IF text = Word.w_modifier
  THEN <<UpdateOp("COLLECTING_CRITERIA", FALSE), Op("ctxNew")>> \o sendMessage("askType")
  ELSE IF text \in {Word.w_pause, Word.w_stop}
       THEN <<UpdateOp("PAUSED", FALSE)>> \o sendMessage("paused")
  ELSE IF text \in {Word.w_statut, Word.w_status} THEN <<Op("statusFind")>>
  ELSE IF text \in {Word.w_aide, Word.w_help} THEN sendMessage("help")
  ELSE sendMessage("ack")

\* ConversationService.handlePausedState
handlePausedState(message) ==
  LET text == trim(toLowerCase(message)) IN
  IF text \in {Word.w_reprendre, Word.w_resume, Word.w_start}
  THEN <<UpdateOp("ACTIVE", TRUE)>> \o sendMessage("resumed")
  ELSE IF text = Word.w_statut THEN <<Op("statusFind")>>
  ELSE sendMessage("pausedReminder")

\* A price step that keeps the number as the maximum and asks for no minimum:
\* the default lower bound is tested against it.
WithMaxOnly(data, message) ==
  IF Len(ParsedPrices(message)) = 0 THEN data
  ELSE [data EXCEPT !.maxPrice = SeqMax(ParsedPrices(message)), !.minPrice = 0]

\* Step 2 of the collection, lines 174-191: the price bounds a message yields.
WithPrices(data, message) ==
  LET text   == trim(toLowerCase(message))
      prices == ParsedPrices(message)
  IN  IF Len(prices) = 0 THEN data
      ELSE IF Len(prices) = 1
           THEN IF includes(text, Word.w_max) \/ includes(text, Word.w_maximum)
                THEN [data EXCEPT !.maxPrice = prices[1], !.minPrice = 0]
                ELSE [data EXCEPT !.maxPrice = prices[1],
                                  !.minPrice = (prices[1] * 6) \div 10]
           ELSE [data EXCEPT !.minPrice = SeqMin(prices), !.maxPrice = SeqMax(prices)]

\* Steps 4 and 5, lines 215-220 and 227-232: the number a message gives,
\* unless it says there is no preference.
WithMinimum(data, field, message) ==
  IF ~SaysNoPreference(trim(toLowerCase(message))) /\ FirstInt(message) # Null
  THEN [data EXCEPT ![field] = FirstInt(message)]
  ELSE data

\* ConversationService.handleCriteriaCollection on the context object it
\* got: the object as it leaves the switch, the calls that follow, and
\* whether line 250 (contexts.set) is reached.
handleCriteriaCollection(context, message) ==
  LET text == trim(toLowerCase(message))
      data == context.data
      Reprompt(msg) == [context |-> context, plan |-> sendMessage(msg), set |-> FALSE]
      Advance(d, step, msg) ==
        [context |-> [step |-> step, data |-> d],
         plan |-> sendMessage(msg) \o <<Op("ctxSet")>>, set |-> TRUE]
  IN
  CASE context.step = 1 ->
         IF includes(text, Word.w_maison) \/ includes(text, Word.w_house)
         THEN Advance([data EXCEPT !.propertyType = "HOUSE"], 2, "askPrice")
         ELSE IF includes(text, Word.w_appartement) \/ includes(text, Word.w_appart)
                 \/ includes(text, Word.w_apartment)
              THEN Advance([data EXCEPT !.propertyType = "APARTMENT"], 2, "askPrice")
         ELSE IF includes(text, Word.w_deux) \/ includes(text, Word.w_both)
                 \/ includes(text, Word.w_tout)
              THEN Advance([data EXCEPT !.propertyType = "BOTH"], 2, "askPrice")
         ELSE Reprompt("typeRetry")
    [] context.step = 2 ->
         LET d == WithPrices(data, message) IN
         IF ~Truthy(d.minPrice) /\ ~Truthy(d.maxPrice)
         THEN [context |-> [context EXCEPT !.data = d],
               plan |-> sendMessage("priceRetry"), set |-> FALSE]
         ELSE Advance(d, 3, "askZone")
    [] context.step = 3 ->
         IF ParsedLocations(message) = <<>> THEN Reprompt("zoneRetry")
         ELSE Advance([data EXCEPT !.locations = ParsedLocations(message)], 4, "askRooms")
    [] context.step = 4 ->
         Advance(WithMinimum(data, "minRooms", message), 5, "askSurface")
    [] context.step = 5 ->
         LET d == WithMinimum(data, "minSurface", message) IN
         [context |-> [context EXCEPT !.data = d],
          plan |-> <<[Op("save") EXCEPT !.data = d]>> \o sendMessage("summary")
                   \o <<UpdateOp("CONFIRMING", FALSE), Op("ctxSet")>>,
          set |-> TRUE]
    [] OTHER -> [context |-> context, plan |-> <<Op("ctxSet")>>, set |-> TRUE]

\* ConversationService.saveCriteria: the upsert; an undefined field leaves
\* the column of an existing row as it was.
saveCriteria(user, data) ==
  LET row == IF user.hasCriteria THEN user.criteria ELSE EmptyCriteria IN
  [user EXCEPT
     !.hasCriteria = TRUE,
     !.criteria =
        [row EXCEPT
           !.propertyType = IF data.propertyType # "NONE" THEN data.propertyType ELSE "BOTH",
           !.minPrice = IF data.minPrice # Null THEN data.minPrice ELSE @,
           !.maxPrice = IF data.maxPrice # Null THEN data.maxPrice ELSE @,
           !.locations = data.locations,
           !.minRooms = IF data.minRooms # Null THEN data.minRooms ELSE @,
           !.minSurface = IF data.minSurface # Null THEN data.minSurface ELSE @]]

NoUser ==
  [exists |-> FALSE, conversationState |-> "none", isActive |-> FALSE,
   hasCriteria |-> FALSE, criteria |-> EmptyCriteria]

\* delivery: the outcome of the last delivery call of the invocation.
NoDelivery == [msg |-> "none", ok |-> FALSE]
IdleHandler ==
  [from |-> 1, text |-> <<>>, state |-> "none", ctx |-> 0, plan |-> <<>>,
   delivery |-> NoDelivery]

\* A sendMessage that writes the OUTGOING entry whatever the delivery call
\* did: the order of delivery and log is tested against it.
LogRegardless(rest, ack) == rest

\* sendMessage, lines 445-472: what is left to do after the delivery call;
\* when it throws, the catch of line 470 skips the lookup and the log.
AfterDelivery(rest, ack) == IF ack THEN rest ELSE SubSeq(rest, 3, Len(rest))

\* The context objects still referenced, by the map or by a running handler.
Referenced(c, hs) ==
  ({c[u] : u \in UserIds} \cup {hs[h].ctx : h \in HandlerIds}) \ {0}
Collect(hp, c, hs) ==
  [o \in ObjIds |-> IF o \in Referenced(c, hs) THEN hp[o] ELSE NewContext]
FreshObj ==
  CHOOSE o \in ObjIds :
    /\ o \notin Referenced(contexts, handlers)
    /\ \A q \in ObjIds : q < o => q \in Referenced(contexts, handlers)

\* The switch of handleIncomingMessage, lines 53-69, for the states whose
\* handlers do not read the contexts map.
StateHandler(state, message) ==
  CASE state = "IDLE" -> handleIdleState(message)
    [] state = "CONFIRMING" -> handleConfirmation(message)
    [] state = "ACTIVE" -> handleActiveState(message)
    [] state = "PAUSED" -> handlePausedState(message)
    [] OTHER -> <<>>

\* WebhookController.handleWhapiWebhook: every text message (or captioned
\* image) of the batch starts a handleIncomingMessage that is not awaited.
handleWhapiWebhook(batch) ==
  LET free == {h \in HandlerIds : handlers[h].plan = <<>>}
      Slot(k) == CHOOSE h \in free : Cardinality({g \in free : g < h}) = k - 1
  IN
  /\ received + Len(batch) <= MaxMessages
  /\ Cardinality(free) >= Len(batch)
  /\ handlers' =
       [h \in HandlerIds |->
          IF \E k \in 1..Len(batch) : Slot(k) = h
          THEN LET k == CHOOSE k \in 1..Len(batch) : Slot(k) = h IN
               [IdleHandler EXCEPT !.from = batch[k].from, !.text = batch[k].text,
                                   !.plan = <<Op("find")>>]
          ELSE handlers[h]]
  /\ received' = received + Len(batch)
  /\ UNCHANGED <<users, listings, matches, notifications, pass, job, enrich, scrape, whapi,
                 contexts, heap, conversations>>

\* ConversationService.handleIncomingMessage: the next awaited call of the
\* invocation completes and the code runs up to the following one.
handleIncomingMessage(h) ==
  LET r    == handlers[h]
      op   == Head(r.plan)
      rest == Tail(r.plan)
      u    == r.from
      Then(hr, plan) == IF plan = <<>> THEN IdleHandler ELSE [hr EXCEPT !.plan = plan]
      Memory(hr, c, hp) ==
        /\ handlers' = [handlers EXCEPT ![h] = hr]
        /\ contexts' = c
        /\ heap' = Collect(hp, c, [handlers EXCEPT ![h] = hr])
      Resume(plan) == Memory(Then(r, plan), contexts, heap)
  IN
  /\ r.plan # <<>>
  /\ CASE op.op = "find" ->
            \* lines 25-34
            /\ Memory(IF users[u].exists
                      THEN [r EXCEPT !.state = users[u].conversationState,
                                     !.plan = <<Op("touch"), Op("logIn"), Op("dispatch")>>]
                      ELSE [r EXCEPT !.plan = createNewUser \o sendWelcomeMessage],
                      contexts, heap)
            /\ UNCHANGED <<users, conversations>>
       [] op.op = "create" ->
            \* lines 76-81; whatsappNumber is unique
            IF users[u].exists
            THEN Resume(<<>>) /\ UNCHANGED <<users, conversations>>
            ELSE /\ \E a \in BOOLEAN :
                      users' = [users EXCEPT ![u] =
                        [NoUser EXCEPT !.exists = TRUE, !.conversationState = "IDLE",
                                       !.isActive = a]]
                 /\ Resume(rest)
                 /\ UNCHANGED conversations
       [] op.op = "createCriteria" ->
            \* lines 84-90; one criteria row per user
            IF users[u].hasCriteria
            THEN Resume(<<>>) /\ UNCHANGED <<users, conversations>>
            ELSE /\ users' = [users EXCEPT ![u].hasCriteria = TRUE,
                                           ![u].criteria = EmptyCriteria]
                 /\ Resume(rest)
                 /\ UNCHANGED conversations
       [] op.op = "touch" ->
            \* lines 37-40
            Resume(rest) /\ UNCHANGED <<users, conversations>>
       [] op.op = "logIn" ->
            \* lines 43-50
            /\ conversations' = [conversations EXCEPT ![u] =
                 Append(@, [direction |-> "INCOMING", text |-> r.text, msg |-> "none"])]
            /\ Resume(rest)
            /\ UNCHANGED users
       [] op.op = "dispatch" ->
            \* lines 53-69, with lines 153-250 up to the first awaited call
            /\ IF r.state = "COLLECTING_CRITERIA"
               THEN LET known == contexts[u] # 0
                        ref   == IF known THEN contexts[u] ELSE FreshObj
                        res   == handleCriteriaCollection(
                                   IF known THEN heap[contexts[u]] ELSE NewContext, r.text)
                    IN  Memory(Then([r EXCEPT !.ctx = IF res.set THEN ref ELSE 0], res.plan),
                               contexts, [heap EXCEPT ![ref] = res.context])
               ELSE Resume(StateHandler(r.state, r.text))
            /\ UNCHANGED <<users, conversations>>
       [] op.op = "update" ->
            /\ users' = [users EXCEPT ![u].conversationState = op.state,
                                      ![u].isActive = IF op.activate THEN TRUE ELSE @]
            /\ Resume(rest)
            /\ UNCHANGED conversations
       [] op.op = "ctxNew" ->
            \* this.contexts.set(number, { step: 1, data: {} })
            /\ Memory(Then(r, rest), [contexts EXCEPT ![u] = FreshObj],
                      [heap EXCEPT ![FreshObj] = NewContext])
            /\ UNCHANGED <<users, conversations>>
       [] op.op = "ctxSet" ->
            \* lines 246-250: this.contexts.set(number, context)
            /\ Memory(Then(r, rest), [contexts EXCEPT ![u] = r.ctx], heap)
            /\ UNCHANGED <<users, conversations>>
       [] op.op = "save" ->
            /\ users' = [users EXCEPT ![u] = saveCriteria(@, op.data)]
            /\ Resume(rest)
            /\ UNCHANGED conversations
       [] op.op = "statusFind" ->
            \* sendCurrentStatus, lines 338-346
            /\ Resume(sendMessage(IF users[u].hasCriteria THEN "status" ELSE "noCriteria")
                      \o rest)
            /\ UNCHANGED <<users, conversations>>
       [] op.op = "send" ->
            \* lines 445-451 and 470-472: a failed delivery skips the log
            /\ \E ack \in BOOLEAN :
                 Memory(Then([r EXCEPT !.delivery = [msg |-> op.msg, ok |-> ack]],
                             AfterDelivery(rest, ack)),
                        contexts, heap)
            /\ UNCHANGED <<users, conversations>>
       [] op.op = "sendFind" ->
            \* lines 454-458
            /\ Resume(IF users[u].exists THEN rest ELSE Tail(rest))
            /\ UNCHANGED <<users, conversations>>
       [] op.op = "sendLog" ->
            \* lines 460-468
            /\ conversations' = [conversations EXCEPT ![u] =
                 Append(@, [direction |-> "OUTGOING", text |-> <<>>, msg |-> op.msg])]
            /\ Resume(rest)
            /\ UNCHANGED users
  /\ UNCHANGED <<listings, matches, notifications, pass, job, enrich, scrape, whapi, received>>

(***************************************************************************)
(* Specifications.                                                         *)
(***************************************************************************)
EmptyStores ==
  /\ listings = [i \in PostIds |-> NoListing(i)]
  /\ matches = <<>>
  /\ notifications = <<>>
  /\ pass = [p \in PassIds |-> IdlePass]
  /\ enrich = IdleEnrich
  /\ scrape = [s \in Scrapers |-> IdleScrape]
  /\ job = NoJob
  /\ whapi = [pr \in Pairs |-> NoCalls]
  /\ contexts = [u \in UserIds |-> 0]
  /\ heap = [o \in ObjIds |-> NewContext]
  /\ handlers = [h \in HandlerIds |-> IdleHandler]
  /\ conversations = [u \in UserIds |-> <<>>]
  /\ received = 0

\* A user that went through the collection and confirmed.
ActiveUser(criteria) ==
  [exists |-> TRUE, conversationState |-> "ACTIVE", isActive |-> TRUE,
   hasCriteria |-> TRUE, criteria |-> criteria]

\* The criteria the users start with.
InitialCriteria(u) == IF u = 1 THEN CriteriaHouseLyon ELSE CriteriaApartmentParis

\* Confirmed users, no listing yet.
Init ==
  /\ users = [u \in UserIds |->
                IF u = 1 THEN ActiveUser(InitialCriteria(u))
                ELSE [ActiveUser(InitialCriteria(u)) EXCEPT !.isActive = FALSE]]
  /\ EmptyStores

MatchingStep(p) ==
  \/ processMatches(p)
  \/ matchFindFirst(p)
  \/ matchCreate(p)
  \/ listingPushSentTo(p)
  \/ notifyUser(p)
  \/ processMatchesReturn(p)
  \/ processAllMatchesReturn(p)

Ingestion ==
  \/ \E i \in PostIds : processPost(i)
  \/ processUnprocessedListings
  \/ enrichListing

\* Scraping, enrichment and any number of matching passes (the scheduled
\* tick, manual triggers, direct calls) in flight together.
Next ==
  \/ \E p \in PassIds : processAllMatches(p)
  \/ \E p \in PassIds, i \in PostIds : processMatchesCall(p, i)
  \/ \E p \in PassIds : MatchingStep(p)
  \/ Ingestion

Spec == Init /\ [][Next]_vars

\* One matching pass at a time, each started when the one before it has
\* returned; the admin edits the criteria of the users between the steps.

InitSequential ==
  /\ users = [u \in UserIds |-> ActiveUser(InitialCriteria(u))]
  /\ EmptyStores

NextSequential ==
  \/ pass[1].pc = "idle" /\ processAllMatches(1)
  \/ \E i \in PostIds : pass[1].pc = "idle" /\ processMatchesCall(1, i)
  \/ MatchingStep(1)
  \/ Ingestion
  \/ \E u \in UserIds, v \in UserIds : updateUser(u, InitialCriteria(v))

SpecSequential == InitSequential /\ [][NextSequential]_vars

\* Inbound traffic: webhook calls that carry one message or two, any number
\* of handlers in flight, on an empty database.
InitEmpty ==
  /\ users = [u \in UserIds |-> NoUser]
  /\ EmptyStores

InboundMessages(texts) == {[from |-> u, text |-> t] : u \in UserIds, t \in texts}
Batches(texts) ==
  {<<m>> : m \in InboundMessages(texts)}
  \cup {<<m, n>> : m \in InboundMessages(texts), n \in InboundMessages(texts)}

NextInbound ==
  \/ \E batch \in Batches({Text.m_maison, Text.m_250000}) :
       received + Len(batch) <= MaxBurst /\ handleWhapiWebhook(batch)
  \/ \E h \in HandlerIds : handleIncomingMessage(h)

SpecInbound == InitEmpty /\ [][NextInbound]_vars

\* The confirmed user pauses and resumes the alerts while listings are
\* scraped, enriched and matched, one pass and one message at a time.
NoHandlerInFlight == \A h \in HandlerIds : handlers[h].plan = <<>>

NextPause ==
  \/ \E t \in {Text.m_pause, Text.m_reprendre} :
       /\ NoHandlerInFlight
       /\ received < MaxBurst
       /\ handleWhapiWebhook(<<[from |-> 1, text |-> t]>>)
  \/ \E h \in HandlerIds : handleIncomingMessage(h)
  \/ pass[1].pc = "idle" /\ processAllMatches(1)
  \/ MatchingStep(1)
  \/ Ingestion

SpecPause == Init /\ [][NextPause]_vars

\* One matching pass at a time; between the passes the admin gives the users
\* any of the criteria: a listing scores above both thresholds, between them
\* or below.
NextThresholds ==
  \/ pass[1].pc = "idle" /\ processAllMatches(1)
  \/ MatchingStep(1)
  \/ Ingestion
  \/ \E u \in UserIds, criteria \in CriteriaInputs :
       pass[1].pc = "idle" /\ updateUser(u, criteria)

SpecThresholds == InitSequential /\ [][NextThresholds]_vars

\* notifyUser called on its own, any number of times, on Matches of which
\* some were notified before: one enriched listing, two users it fits.
StoredListing ==
  EnrichedRow([NoListing(1) EXCEPT !.exists = TRUE, !.isValid = TRUE,
                                   !.images = PostImages(1), !.rows = 1], GoodExtraction)
StoredMatch(u, notified) ==
  LET score == calculateMatchScore(StoredListing, CriteriaHouseLyon) IN
  [userId |-> u, listingId |-> 1, scoreNum |-> score.totalNum, scoreDen |-> score.den,
   reasons |-> generateMatchReasons(StoredListing, CriteriaHouseLyon, score),
   isNotified |-> notified, notifiedAt |-> notified,
   scoredOn |-> [isValid |-> TRUE, aiEnriched |-> TRUE]]
StoredNotification(u) == [userId |-> u, relatedEntityId |-> 1, message |-> "ai"]

InitNotify ==
  /\ users = [u \in UserIds |-> ActiveUser(CriteriaHouseLyon)]
  /\ listings = [i \in PostIds |-> IF i = 1 THEN StoredListing ELSE NoListing(i)]
  /\ \E notified \in [UserIds -> BOOLEAN] :
       /\ matches = [u \in UserIds |-> StoredMatch(u, notified[u])]
       /\ notifications =
            SelectSeq([u \in UserIds |-> [StoredNotification(u) EXCEPT
                                            !.message = IF notified[u] THEN "ai" ELSE "none"]],
                      LAMBDA n : n.message # "none")
  /\ pass = [p \in PassIds |-> IdlePass]
  /\ enrich = IdleEnrich
  /\ scrape = [s \in Scrapers |-> IdleScrape]
  /\ job = NoJob
  /\ whapi = [pr \in Pairs |-> NoCalls]
  /\ contexts = [u \in UserIds |-> 0]
  /\ heap = [o \in ObjIds |-> NewContext]
  /\ handlers = [h \in HandlerIds |-> IdleHandler]
  /\ conversations = [u \in UserIds |-> <<>>]
  /\ received = 0

NextNotify ==
  \/ \E p \in PassIds, k \in UserIds : notifyUserCall(p, k)
  \/ \E p \in PassIds : notifyUser(p)

SpecNotify == InitNotify /\ [][NextNotify]_vars

\* A collection pass: the user was just put in COLLECTING_CRITERIA with a new
\* context (sendWelcomeMessage, or a modify command), holds either the empty
\* criteria row of createNewUser or the criteria of an earlier pass, and
\* answers each prompt when the handler of the answer before has finished.
CriteriaEarlierPass ==
  [EmptyCriteria EXCEPT !.propertyType = "APARTMENT", !.minPrice = 100000,
                        !.maxPrice = 200000, !.locations = <<Word.s_paris>>,
                        !.minRooms = 3, !.minSurface = 50]

InitCollect ==
  /\ \E earlier \in {EmptyCriteria, CriteriaEarlierPass} :
       users = [u \in UserIds |->
                  IF u = 1
                  THEN [exists |-> TRUE, conversationState |-> "COLLECTING_CRITERIA",
                        isActive |-> earlier # EmptyCriteria, hasCriteria |-> TRUE,
                        criteria |-> earlier]
                  ELSE NoUser]
  /\ listings = [i \in PostIds |-> NoListing(i)]
  /\ matches = <<>>
  /\ notifications = <<>>
  /\ pass = [p \in PassIds |-> IdlePass]
  /\ enrich = IdleEnrich
  /\ scrape = [s \in Scrapers |-> IdleScrape]
  /\ job = NoJob
  /\ whapi = [pr \in Pairs |-> NoCalls]
  /\ contexts = [u \in UserIds |-> IF u = 1 THEN 1 ELSE 0]
  /\ heap = [o \in ObjIds |-> NewContext]
  /\ handlers = [h \in HandlerIds |-> IdleHandler]
  /\ conversations = [u \in UserIds |-> <<>>]
  /\ received = 0

NextCollect ==
  \/ \E t \in CollectAnswers :
       NoHandlerInFlight /\ handleWhapiWebhook(<<[from |-> 1, text |-> t]>>)
  \/ \E h \in HandlerIds : handleIncomingMessage(h)

SpecCollect == InitCollect /\ [][NextCollect]_vars

\* One answer at any step of the collection: the context is the one the
\* answers "maison", "250000", "Lyon", "pas important" build, up to the step.
MaxAnswers == 1
CanonicalAnswers == <<Word.w_maison, Text.t_250000, Text.m_Lyon, Text.t_pas_important>>
RECURSIVE ContextAfter(_)
ContextAfter(n) ==
  IF n = 0 THEN NewContext
  ELSE handleCriteriaCollection(ContextAfter(n - 1), CanonicalAnswers[n]).context

InitAnswer ==
  /\ users = [u \in UserIds |->
                IF u = 1
                THEN [exists |-> TRUE, conversationState |-> "COLLECTING_CRITERIA",
                      isActive |-> FALSE, hasCriteria |-> TRUE, criteria |-> EmptyCriteria]
                ELSE NoUser]
  /\ listings = [i \in PostIds |-> NoListing(i)]
  /\ matches = <<>>
  /\ notifications = <<>>
  /\ pass = [p \in PassIds |-> IdlePass]
  /\ enrich = IdleEnrich
  /\ scrape = [s \in Scrapers |-> IdleScrape]
  /\ job = NoJob
  /\ whapi = [pr \in Pairs |-> NoCalls]
  /\ contexts = [u \in UserIds |-> IF u = 1 THEN 1 ELSE 0]
  /\ \E n \in 0..Len(CanonicalAnswers) :
       heap = [o \in ObjIds |-> IF o = 1 THEN ContextAfter(n) ELSE NewContext]
  /\ handlers = [h \in HandlerIds |-> IdleHandler]
  /\ conversations = [u \in UserIds |-> <<>>]
  /\ received = 0

NextAnswer ==
  \/ \E t \in AnswerTexts :
       /\ NoHandlerInFlight
       /\ received < MaxAnswers
       /\ handleWhapiWebhook(<<[from |-> 1, text |-> t]>>)
  \/ \E h \in HandlerIds : handleIncomingMessage(h)

SpecAnswer == InitAnswer /\ [][NextAnswer]_vars

\* Commands outside the collection: the user is IDLE, CONFIRMING or ACTIVE,
\* with alerts on or off, has saved criteria, and the contexts map holds
\* either nothing for the user or the context the last completed pass left
\* there (line 250 sets it again after the delete of line 246).
MaxCommands == 2
LeftoverContext ==
  handleCriteriaCollection(ContextAfter(Len(CanonicalAnswers)), Text.t_pas_important).context

InitCommands ==
  /\ \E state \in {"IDLE", "CONFIRMING", "ACTIVE"}, active \in BOOLEAN :
       users = [u \in UserIds |->
                  IF u = 1
                  THEN [exists |-> TRUE, conversationState |-> state, isActive |-> active,
                        hasCriteria |-> TRUE, criteria |-> CriteriaHouseLyon]
                  ELSE NoUser]
  /\ listings = [i \in PostIds |-> NoListing(i)]
  /\ matches = <<>>
  /\ notifications = <<>>
  /\ pass = [p \in PassIds |-> IdlePass]
  /\ enrich = IdleEnrich
  /\ scrape = [s \in Scrapers |-> IdleScrape]
  /\ job = NoJob
  /\ whapi = [pr \in Pairs |-> NoCalls]
  /\ \E kept \in BOOLEAN :
       /\ contexts = [u \in UserIds |-> IF u = 1 /\ kept THEN 1 ELSE 0]
       /\ heap = [o \in ObjIds |-> IF o = 1 /\ kept THEN LeftoverContext ELSE NewContext]
  /\ handlers = [h \in HandlerIds |-> IdleHandler]
  /\ conversations = [u \in UserIds |-> <<>>]
  /\ received = 0

NextCommands ==
  \/ \E t \in CommandTexts :
       /\ NoHandlerInFlight
       /\ received < MaxCommands
       /\ handleWhapiWebhook(<<[from |-> 1, text |-> t]>>)
  \/ \E h \in HandlerIds : handleIncomingMessage(h)

SpecCommands == InitCommands /\ [][NextCommands]_vars

\* Unknown numbers write in, one message at a time, each handled to its end
\* before the next arrives.
NextOutbound ==
  \/ \E u \in UserIds, t \in {Text.m_maison, Text.m_pause} :
       /\ NoHandlerInFlight
       /\ received < MaxBurst
       /\ handleWhapiWebhook(<<[from |-> u, text |-> t]>>)
  \/ \E h \in HandlerIds : handleIncomingMessage(h)

SpecOutbound == InitEmpty /\ [][NextOutbound]_vars

\* Scoring: one enriched listing with any of the prices, surfaces and numbers
\* of rooms (absent included), one active user with any combination of bounds
\* (absent, zero, positive) on the three dimensions; matching passes score
\* the listing for the user.
ScoredListings ==
  {[StoredListing EXCEPT !.price = price, !.surface = surface, !.rooms = rooms] :
     price \in {Null, 50000, 200000, 400000}, surface \in {Null, 50, 120},
     rooms \in {Null, 3, 8}}
ScoringCriteria ==
  {[CriteriaHouseLyon EXCEPT !.minPrice = b[1], !.maxPrice = b[2],
                             !.minSurface = b[3], !.maxSurface = b[4],
                             !.minRooms = b[5], !.maxRooms = b[6]] :
     b \in {Null, 0, 100000} \X {Null, 300000} \X {Null, 0, 40} \X {Null, 100}
           \X {Null, 0, 2} \X {Null, 5}}

InitScore ==
  /\ \E criteria \in ScoringCriteria :
       users = [u \in UserIds |-> IF u = 1 THEN ActiveUser(criteria) ELSE NoUser]
  /\ \E listing \in ScoredListings :
       listings = [i \in PostIds |-> IF i = 1 THEN listing ELSE NoListing(i)]
  /\ matches = <<>>
  /\ notifications = <<>>
  /\ pass = [p \in PassIds |-> IdlePass]
  /\ enrich = IdleEnrich
  /\ scrape = [s \in Scrapers |-> IdleScrape]
  /\ job = NoJob
  /\ whapi = [pr \in Pairs |-> NoCalls]
  /\ contexts = [u \in UserIds |-> 0]
  /\ heap = [o \in ObjIds |-> NewContext]
  /\ handlers = [h \in HandlerIds |-> IdleHandler]
  /\ conversations = [u \in UserIds |-> <<>>]
  /\ received = 0

NextScore ==
  \/ pass[1].pc = "idle" /\ matches = <<>> /\ processAllMatches(1)
  \/ MatchingStep(1)

SpecScore == InitScore /\ [][NextScore]_vars

\* Scraping and enrichment passes, the extraction returning any outcome.
NextEnrich ==
  \/ \E i \in PostIds : processPost(i)
  \/ processUnprocessedListings
  \/ \E extracted \in ExtractionOutcomes : enrichListingWith(extracted)

SpecEnrich == InitSequential /\ [][NextEnrich]_vars

\* A scheduled and a manual scrape overlapping, over pages that repeat
\* posts, while enrichment passes run.
NextScrape ==
  \/ \E s \in Scrapers, i \in PostIds : processPostFind(s, i)
  \/ \E s \in Scrapers : processPostCreate(s)
  \/ processUnprocessedListings
  \/ enrichListing

SpecScrape == InitSequential /\ [][NextScrape]_vars

\* The backlog of matching: every listing is stored, valid and enriched, and
\* nothing is scraped any more; the scheduler invokes processAllMatches again
\* and again, each invocation running to its end. The page of the query is
\* scaled down with the store: DrainPageSize rows stand for the 100 of the
\* code, NumListings eligible listings for more than 100.
DrainPageSize == 1

InitDrain ==
  /\ \E criteria \in [UserIds -> CriteriaInputs] :
       users = [u \in UserIds |-> ActiveUser(criteria[u])]
  /\ listings = [i \in PostIds |-> [StoredListing EXCEPT !.id = i]]
  /\ matches = <<>>
  /\ notifications = <<>>
  /\ pass = [p \in PassIds |-> IdlePass]
  /\ enrich = IdleEnrich
  /\ scrape = [s \in Scrapers |-> IdleScrape]
  /\ job = NoJob
  /\ whapi = [pr \in Pairs |-> NoCalls]
  /\ contexts = [u \in UserIds |-> 0]
  /\ heap = [o \in ObjIds |-> NewContext]
  /\ handlers = [h \in HandlerIds |-> IdleHandler]
  /\ conversations = [u \in UserIds |-> <<>>]
  /\ received = 0

matchTask == processAllMatchesTake(1, DrainPageSize)

NextDrain ==
  \/ matchTask
  \/ MatchingStep(1)

SpecDrain ==
  InitDrain /\ [][NextDrain]_vars /\ WF_vars(matchTask) /\ WF_vars(MatchingStep(1))

\* A collection at any of its steps, the user sending two messages of which
\* the second arrives while the first is handled: answers, and the "Non"
\* that restarts the collection from CONFIRMING.
NextOverlap ==
  \/ \E t \in CollectAnswers \cup {Text.m_Non} :
       received < MaxCommands /\ handleWhapiWebhook(<<[from |-> 1, text |-> t]>>)
  \/ \E h \in HandlerIds : handleIncomingMessage(h)

SpecOverlap == InitAnswer /\ [][NextOverlap]_vars

\* UserController.sendMessageToUser: the user is looked up by id (404 when
\* absent) and the text is handed to handleIncomingMessage under the user's
\* own number.
sendMessageToUser(u, message) ==
  /\ users[u].exists
  /\ handleWhapiWebhook(<<[from |-> u, text |-> message]>>)

\* An administrator sends texts to a user, one request at a time; nothing
\* comes in from the user.
NextAdminMessage ==
  \/ \E t \in CommandTexts :
       /\ NoHandlerInFlight
       /\ received < MaxCommands
       /\ sendMessageToUser(1, t)
  \/ \E h \in HandlerIds : handleIncomingMessage(h)

SpecAdminMessage == InitCommands /\ [][NextAdminMessage]_vars

(***************************************************************************)
(* Scheduling (ScraperJob).                                                *)
(***************************************************************************)
MaxStarts == 2

\* cron.schedule: a new task, scheduled at once.
Scheduled(kind) == [kind |-> kind, active |-> TRUE]

\* ScraperJob.start: four tasks are scheduled; three are kept in the fields,
\* over whatever the fields held; the cleanup task is kept nowhere.
start ==
  /\ Len(job.tasks) < 4 * MaxStarts
  /\ LET n == Len(job.tasks) IN
       job' = [tasks |-> job.tasks \o <<Scheduled("scrape"), Scheduled("enrich"),
                                        Scheduled("match"), Scheduled("cleanup")>>,
               scrapeTask |-> n + 1, enrichTask |-> n + 2, matchTask |-> n + 3]
  /\ UNCHANGED <<users, listings, matches, notifications, pass, enrich, scrape, whapi,
                 conversationVars>>

\* ScraperJob.stop: the task of each field that is not null is stopped; the
\* fields are left as they are.
stop ==
  /\ job' = [job EXCEPT !.tasks =
       [k \in 1..Len(job.tasks) |->
          IF k \in {job.scrapeTask, job.enrichTask, job.matchTask}
          THEN [job.tasks[k] EXCEPT !.active = FALSE] ELSE job.tasks[k]]]
  /\ UNCHANGED <<users, listings, matches, notifications, pass, enrich, scrape, whapi,
                 conversationVars>>

\* ScraperJob.getStatus.
getStatus ==
  [scraperRunning |-> job.scrapeTask # 0,
   enrichRunning |-> job.enrichTask # 0,
   matchRunning |-> job.matchTask # 0]

\* Some scheduled task of the kind is active: its callback fires at its times.
Fires(kind) == \E k \in 1..Len(job.tasks) : job.tasks[k] = Scheduled(kind)

\* The job is started and stopped in any order while posts are stored; the
\* enrichment callback runs while an enrichment task is active.
NextJob ==
  \/ start
  \/ stop
  \/ \E i \in PostIds : processPost(i)
  \/ Fires("enrich") /\ processUnprocessedListings
  \/ enrichListing

SpecJob == InitSequential /\ [][NextJob]_vars

\* The scheduled enrichment pass and a triggered one, overlapping.
NextEnrichOverlap ==
  \/ \E i \in PostIds : processPost(i)
  \/ processUnprocessedListings
  \/ enrichListing
  \/ triggerEnrichment
  \/ enrichListingTriggered

SpecEnrichOverlap == InitSequential /\ [][NextEnrichOverlap]_vars

(***************************************************************************)
(* Properties of matching and notification.                                *)
(***************************************************************************)
MatchIds == 1..Len(matches)
PairOf(k) == <<matches[k].userId, matches[k].listingId>>
NotificationsOf(pr) ==
  {n \in 1..Len(notifications) :
     notifications[n].userId = pr[1] /\ notifications[n].relatedEntityId = pr[2]}

\* The matches created by the processMatches call of pass p that were above
\* the notification threshold.
CreatedToNotify(p) ==
  {k \in pass[p].created :
     matches[k].scoreNum >= NotifyThreshold * matches[k].scoreDen}

\* C1: when the matching passes run one after the other, whatever the
\* criteria edits in between, the Match table holds at most one row per
\* (userId, listingId).
C1_OneMatchPerPair ==
  \A j, k \in MatchIds : PairOf(j) = PairOf(k) => j = k

\* A later pass meets a pairing that was matched under other criteria.
C1_Witness ==
  /\ pass[1].pc = "findFirst"
  /\ \E k \in MatchIds :
       /\ matches[k].userId = Head(pass[1].cands).userId
       /\ matches[k].listingId = Head(pass[1].cands).listingId
       /\ matches[k].scoreNum # Head(pass[1].cands).scoreNum

\* C2: with matching passes overlapping, the Match table still holds at most
\* one row per (userId, listingId).
C2_OneMatchPerPairUnderOverlap ==
  \A pr \in Pairs : Cardinality({k \in MatchIds : PairOf(k) = pr}) <= 1

\* C3: when the matching passes run one after the other, notifyUser goes to
\* the delivery client at most once per (user, listing), and the text is
\* sent at most once.
C3_NotifiedAtMostOnce ==
  \A pr \in Pairs : whapi[pr].attempts <= 1 /\ whapi[pr].texts <= 1

\* A later pass meets a pairing whose notification was already attempted.
C3_Witness ==
  /\ pass[1].pc = "findFirst"
  /\ Head(pass[1].cands).shouldNotify
  /\ whapi[<<Head(pass[1].cands).userId, Head(pass[1].cands).listingId>>].attempts = 1

\* C4: every Match was scored on a listing that was valid and enriched, and
\* a processMatches call on a listing that is not creates nothing and
\* notifies nobody, whatever the interleaving of scraping, enrichment and
\* matching.
C4_OnlyValidEnrichedListingsMatch ==
  /\ \A k \in MatchIds : matches[k].scoredOn.isValid /\ matches[k].scoredOn.aiEnriched
  /\ \A p \in PassIds :
       (pass[p].pc = "ret" /\ ~(pass[p].listing.isValid /\ pass[p].listing.aiEnriched))
       => (pass[p].created = {} /\ pass[p].notifiedCount = 0)

\* A processMatches call on an enriched listing that was found invalid
\* returns, while a user holds criteria that fit the listing.
C4_Witness ==
  \E p \in PassIds :
    /\ pass[p].pc = "ret"
    /\ pass[p].listing.exists
    /\ pass[p].listing.aiEnriched
    /\ ~pass[p].listing.isValid
    /\ \E u \in ActiveUsers :
         calculateMatchScore(pass[p].listing, users[u].criteria).totalNum
           >= MatchThreshold * ScoreDen(pass[p].listing)

\* C5: when processMatches returns, every Match it created with a total of
\* 70 or more, and whose deliveries were all acknowledged, is notified
\* (isNotified, notifiedAt), has exactly one Notification record, and its
\* user got exactly one text and at most three images.
C5_NewMatchEndsNotified ==
  \A p \in PassIds :
    pass[p].pc = "ret" =>
      \A k \in CreatedToNotify(p) \ (pass[p].textFailed \cup pass[p].imageFailed) :
        /\ matches[k].isNotified
        /\ matches[k].notifiedAt
        /\ Cardinality(NotificationsOf(PairOf(k))) = 1
        /\ whapi[PairOf(k)].texts = 1
        /\ whapi[PairOf(k)].images <= MaxImagesSent

C10_ReturnsNotifiedCount ==
  \A p \in PassIds :
    pass[p].pc = "ret" =>
      pass[p].notifiedCount = Cardinality({k \in pass[p].created : matches[k].isNotified})

\* C11: notifyUser called on a Match that is already notified does nothing:
\* no text, no image, no new Notification record, and the Match stays as it
\* was (notified, with its notifiedAt).
C11_NotifiedMatchIsLeftAlone ==
  \A k \in MatchIds :
    matches[k].isNotified =>
      /\ whapi[PairOf(k)].attempts = 0
      /\ whapi[PairOf(k)].texts = 0
      /\ whapi[PairOf(k)].images = 0
      /\ Cardinality(NotificationsOf(PairOf(k))) = 1
      /\ matches[k].notifiedAt

\* notifyUser was called twice on a notified Match and returned at its guard.
C11_Witness ==
  \E k \in MatchIds : matches[k].isNotified /\ whapi[PairOf(k)].noops = 2

\* C12: a Match is created only for a total of at least 60; notifyUser is
\* entered for a new Match exactly when its total is at least 70, and only
\* from that decision; a Match between 60 and 70 is stored not notified and
\* no delivery call is ever made for it.
MatchTotalAtLeast(k, n) == matches[k].scoreNum >= n * matches[k].scoreDen
C12_Thresholds ==
  [][/\ \A k \in 1..Len(matches') :
          k > Len(matches) =>
            /\ matches'[k].scoreNum >= MatchThreshold * matches'[k].scoreDen
            /\ ~matches'[k].isNotified
     /\ \A p \in PassIds :
          /\ (pass[p].pc = "push" /\ pass'[p] # pass[p]) =>
               ((pass'[p].pc = "notifyLoad" /\ pass'[p].matchId = pass[p].matchId)
                  <=> MatchTotalAtLeast(pass[p].matchId, NotifyThreshold))
          /\ (pass'[p].pc = "notifyLoad" /\ pass[p].pc # "notifyLoad") => pass[p].pc = "push"
     /\ \A k \in MatchIds :
          ~MatchTotalAtLeast(k, NotifyThreshold) =>
            /\ whapi'[PairOf(k)] = NoCalls
            /\ ~matches'[k].isNotified]_vars

\* A processMatches call has returned after storing a Match between the two
\* thresholds (no delivery call made for it) and after passing over an active
\* user whose total is below 60.
C12_Witness ==
  \E p \in PassIds :
    /\ pass[p].pc = "ret"
    /\ \E k \in pass[p].created :
         /\ ~MatchTotalAtLeast(k, NotifyThreshold)
         /\ whapi[PairOf(k)] = NoCalls
    /\ \E u \in ActiveUsers :
         /\ users[u].hasCriteria
         /\ ~TotalAtLeast(calculateMatchScore(pass[p].listing, users[u].criteria),
                          MatchThreshold)
         /\ ~ExistingMatch(u, pass[p].listing.id)

\* C13: there is no automatic redelivery.  Once a processMatches call has
\* left a Match behind not notified (its notification failed, or was never
\* asked for), no later processMatches or processAllMatches takes it up
\* again: no delivery call is made for its pairing and it stays not notified.
LeftBehind(k) == ~matches[k].isNotified /\ \A p \in PassIds : pass[p].matchId # k
C13_NoAutomaticRedelivery ==
  [][\A k \in MatchIds :
       LeftBehind(k) =>
         /\ whapi'[PairOf(k)] = whapi[PairOf(k)]
         /\ ~matches'[k].isNotified
         /\ \A p \in PassIds : pass'[p].matchId # k]_vars

\* A Match whose notification failed (one delivery call, nothing delivered)
\* was left behind, and a later processMatches call over its listing, with
\* its user still active and still fitting, has returned creating nothing.
C13_Witness ==
  \E k \in MatchIds, p \in PassIds :
    /\ LeftBehind(k)
    /\ whapi[PairOf(k)].attempts = 1
    /\ whapi[PairOf(k)].delivered = 0
    /\ pass[p].pc = "ret"
    /\ pass[p].created = {}
    /\ pass[p].listing.id = matches[k].listingId
    /\ matches[k].userId \in ActiveUsers
    /\ KeptUser(pass[p].listing, matches[k].userId)
    /\ MatchResultFor(pass[p].listing, matches[k].userId).shouldNotify

\* A processMatches call has taken the listing and scored it for the user
\* (findMatchesForListing); the score it computed.
Scored == pass[1].listing.exists
ScoreOfUser == calculateMatchScore(pass[1].listing, users[1].criteria)
Unset(a, b) == a = Null /\ b = Null
OneSet(a, b) == (a = Null) # (b = Null)

\* C23: whatever the listing's price, surface or number of rooms, absent
\* values included, criteria with neither bound set on a dimension get the
\* full credit on it: 30 for price, 20 for surface, 15 for rooms.
C23_NoBoundsFullCredit ==
  LET criteria == users[1].criteria IN
  Scored =>
    /\ Unset(criteria.minPrice, criteria.maxPrice) =>
         ScoreOfUser.priceNum = 30 * ScoreOfUser.den
    /\ Unset(criteria.minSurface, criteria.maxSurface) => ScoreOfUser.surface = 20
    /\ Unset(criteria.minRooms, criteria.maxRooms) => ScoreOfUser.rooms = 15

\* A listing without price, surface and rooms was matched at the full 100
\* for a user with no bound at all.
C23_Witness ==
  /\ listings[1].price = Null /\ listings[1].surface = Null /\ listings[1].rooms = Null
  /\ Unset(users[1].criteria.minPrice, users[1].criteria.maxPrice)
  /\ Unset(users[1].criteria.minSurface, users[1].criteria.maxSurface)
  /\ Unset(users[1].criteria.minRooms, users[1].criteria.maxRooms)
  /\ \E k \in MatchIds : matches[k].scoreNum = 100 * matches[k].scoreDen

\* C24: with both price bounds set (a minimum of 0 included) and a priced
\* listing, the price score is 30 inside [minPrice, maxPrice] and otherwise
\* max(0, 30 - 100 d / price), d the distance to the nearer bound: never
\* below 0, always below 30.  200000 in [100000, 300000] scores 30, 400000
\* scores strictly between 0 and 30.
C24_PriceScore ==
  LET criteria == users[1].criteria
      price    == pass[1].listing.price
      den      == ScoreOfUser.den
      d        == IF price < criteria.minPrice THEN criteria.minPrice - price
                  ELSE price - criteria.maxPrice
  IN  (Scored /\ criteria.minPrice # Null /\ criteria.maxPrice # Null /\ price # Null) =>
        /\ (criteria.minPrice <= price /\ price <= criteria.maxPrice) =>
             ScoreOfUser.priceNum = 30 * den
        /\ ~(criteria.minPrice <= price /\ price <= criteria.maxPrice) =>
             /\ ScoreOfUser.priceNum = Max2(0, 30 * den - 100 * d)
             /\ ScoreOfUser.priceNum >= 0
             /\ ScoreOfUser.priceNum < 30 * den
        /\ (criteria.minPrice = 100000 /\ criteria.maxPrice = 300000 /\ price = 400000) =>
             ScoreOfUser.priceNum > 0

\* C25: with exactly one bound of a dimension set, the dimension scores 0
\* for every listing; surface and rooms score 0 outside the range, with no
\* partial credit.
C25_OneBoundNoCredit ==
  LET criteria == users[1].criteria
      listing  == pass[1].listing
  IN  Scored =>
        /\ OneSet(criteria.minPrice, criteria.maxPrice) => ScoreOfUser.priceNum = 0
        /\ OneSet(criteria.minSurface, criteria.maxSurface) => ScoreOfUser.surface = 0
        /\ OneSet(criteria.minRooms, criteria.maxRooms) => ScoreOfUser.rooms = 0
        /\ (/\ criteria.minSurface # Null /\ criteria.maxSurface # Null
            /\ listing.surface # Null
            /\ (listing.surface < criteria.minSurface
                  \/ listing.surface > criteria.maxSurface))
           => ScoreOfUser.surface = 0
        /\ (/\ criteria.minRooms # Null /\ criteria.maxRooms # Null
            /\ listing.rooms # Null
            /\ (listing.rooms < criteria.minRooms \/ listing.rooms > criteria.maxRooms))
           => ScoreOfUser.rooms = 0

\* C26: enrichment leaves a listing with aiEnriched true, and with isValid
\* true exactly when the confidence is at least the threshold, a price or a
\* location was extracted, and the price, when there is one, lies in
\* 10000..10000000.
C26_ValidAfterEnrichment ==
  [][\A i \in PostIds :
       (enrich.pc = "enriching" /\ enrich' # enrich /\ i = Head(enrich.queue)) =>
         LET row == listings'[i] IN
         /\ row.aiEnriched
         /\ row.isValid <=>
              /\ row.confidenceScore >= 60
              /\ (row.price # Null \/ row.location # <<>>)
              /\ row.price # Null => (row.price >= 10000 /\ row.price <= 10000000)]_vars

\* Enriched with full confidence and a location, and not valid: the price is
\* just above the accepted range; another listing is valid at the upper end.
C26_Witness ==
  \E i, j \in PostIds :
    /\ listings[i].aiEnriched /\ ~listings[i].isValid
    /\ listings[i].confidenceScore = 90 /\ listings[i].price = 10000001
    /\ listings[j].aiEnriched /\ listings[j].isValid /\ listings[j].price = 10000000

\* C27: when the extraction service fails on every attempt, the listing is
\* skipped for this pass: its aiEnriched and isValid flags are as before, so
\* that the next enrichment pass takes it again.
C27_FailedExtractionSkipsListing ==
  [][\A i \in PostIds :
       (enrichListingWith(NoExtraction) /\ i = Head(enrich.queue)) =>
         /\ listings'[i].aiEnriched = listings[i].aiEnriched
         /\ listings'[i].isValid = listings[i].isValid]_vars

\* C28: the Listing store holds at most one listing per post id: a post id
\* already ingested is never inserted again and a step of a scrape leaves
\* the stored listing as it was, whatever pages the scrapes see and however
\* a manual and a scheduled scrape overlap.
C28_OneListingPerPost ==
  [][\A i \in PostIds :
       /\ listings'[i].rows <= 1
       /\ (listings[i].exists /\ scrape' # scrape) => listings'[i] = listings[i]]_vars

\* Both scrapes found the post absent; one created it, it was enriched, and
\* then the create of the other was rejected.
C28_Witness ==
  \E s, t \in Scrapers :
    /\ scrape[s].outcome = "rejected" /\ scrape[t].outcome = "created"
    /\ scrape[s].post = scrape[t].post
    /\ listings[scrape[s].post].aiEnriched
    /\ listings[scrape[s].post].rows = 1

\* C29: the backlog drains: when processAllMatches keeps being invoked and
\* no listing is added, every valid and enriched listing is eventually
\* passed to processMatches, also when there are more of them than one
\* invocation takes.
C29_BacklogDrains ==
  \A i \in PostIds :
    (listings[i].exists /\ listings[i].isValid /\ listings[i].aiEnriched)
      ~> (pass[1].pc # "idle" /\ pass[1].listing.exists /\ pass[1].listing.id = i)

\* How many times x is in a list.
Times(seq, x) == Cardinality({k \in 1..Len(seq) : seq[k] = x})

\* C33: processMatches on a listing leaves every Match that the pairing of
\* a user with the listing had before the call as it was (score, reasons,
\* isNotified, notifiedAt), makes no delivery call for the pairing and adds
\* nothing for the user to sentToUsers, also when the criteria of the user
\* have changed since and give another score.
C33_ExistingMatchUntouched ==
  [][\A k \in 1..Len(matches) :
       LET u == matches[k].userId
           i == matches[k].listingId
       IN  (/\ pass'[1] # pass[1]
            /\ pass[1].pc \notin {"idle", "loop"}
            /\ pass[1].listing.id = i
            /\ k \notin pass[1].created) =>
             /\ matches'[k] = matches[k]
             /\ Len(matches') = Len(matches) + 1 =>
                  (matches'[Len(matches')].userId # u \/ matches'[Len(matches')].listingId # i)
             /\ whapi'[<<u, i>>] = whapi[<<u, i>>]
             /\ Times(listings'[i].sentToUsers, u) = Times(listings[i].sentToUsers, u)]_vars

\* processMatches has gone over a listing for which a user holds a Match of
\* an earlier pass; the criteria of the user have changed and still fit the
\* listing, with another score than the stored one.
C33_Witness ==
  \E k \in 1..Len(matches) :
    LET m == matches[k]
        score == calculateMatchScore(pass[1].listing, users[m.userId].criteria)
    IN  /\ pass[1].pc = "ret"
        /\ pass[1].listing.exists /\ pass[1].listing.id = m.listingId
        /\ k \notin pass[1].created
        /\ KeptUser(pass[1].listing, m.userId)
        /\ score.den = m.scoreDen /\ score.totalNum # m.scoreNum
        /\ Len(matches) = 1
        /\ listings[m.listingId].sentToUsers = <<m.userId>>

\* C34: building the message of a notification never throws: for every
\* Match that notifyUser loads and finds not notified, generateUserMessage
\* returns a message and notifyUser goes on to the text delivery call.
C34_MessageAlwaysBuilt ==
  [][\A p \in PassIds :
       (/\ pass[p].pc = "notifyLoad"
        /\ pass'[p] # pass[p]
        /\ ~AlreadyNotified(MatchWithUserAndListing(pass[p].matchId))) =>
         pass'[p].pc = "notifyAi"]_vars

\* A pass calls enrichListing (the extraction, then the update) on listing i.
Enriches(i) ==
  \/ /\ enrich.queue # <<>> /\ Head(enrich.queue) = i
     /\ Len(enrich'.queue) = Len(enrich.queue) - 1
  \/ /\ enrich.manual # <<>> /\ Head(enrich.manual) = i
     /\ enrich'.manual = Tail(enrich.manual)

\* C35: a listing is enriched once: however the scheduled and the triggered
\* enrichment passes interleave, enrichListing is never called on a listing
\* that is already enriched, so the extraction runs at most once per listing
\* and the extracted fields, aiEnriched and isValid are written at most once.
C35_EnrichedOnce ==
  [][\A i \in PostIds : Enriches(i) => ~listings[i].aiEnriched]_vars

\* C36: a Match is notified only after the text of its notification was
\* acknowledged by the delivery client; notifiedAt is set exactly when
\* isNotified is; and a Match that was just created is not notified.
C36_NotifiedOnlyAfterText ==
  /\ \A k \in MatchIds :
       /\ matches[k].isNotified => whapi[PairOf(k)].delivered >= 1
       /\ matches[k].notifiedAt <=> matches[k].isNotified
  /\ \A p \in PassIds :
       pass[p].pc = "push" => ~matches[pass[p].matchId].isNotified

\* A Match was created and its notification was attempted and ended without
\* an acknowledged text: it is stored, not notified and without notifiedAt.
C36_Witness ==
  \E k \in MatchIds :
    /\ whapi[PairOf(k)].attempts = 1
    /\ whapi[PairOf(k)].delivered = 0
    /\ \A p \in PassIds : pass[p].matchId # k
    /\ ~matches[k].isNotified
    /\ ~matches[k].notifiedAt

\* The Match of pass p was created and its sentToUsers push is still to come.
BeingPushed(k) == \E p \in PassIds : pass[p].pc = "push" /\ pass[p].matchId = k

\* C37: when the processMatches runs follow one another, the sentToUsers of
\* a listing holds a user only if a Match of that user and listing exists,
\* holds no user twice, and holds the user of every Match of the listing
\* whose creation step has completed.
C37_SentToUsersFollowsMatches ==
  \A i \in PostIds :
    LET sent == listings[i].sentToUsers IN
    /\ \A n \in 1..Len(sent) : ExistingMatch(sent[n], i)
    /\ \A n, o \in 1..Len(sent) : sent[n] = sent[o] => n = o
    /\ \A k \in MatchIds :
         (matches[k].listingId = i /\ ~BeingPushed(k)) =>
           \E n \in 1..Len(sent) : sent[n] = matches[k].userId

\* A later run comes to a pair whose Match exists, on a listing that holds
\* both users in its sentToUsers.
C37_Witness ==
  \E p \in PassIds :
    /\ pass[p].pc = "findFirst"
    /\ LET m == Head(pass[p].cands) IN
         /\ ExistingMatch(m.userId, m.listingId)
         /\ Len(listings[m.listingId].sentToUsers) = NumUsers
         /\ Len(matches) >= NumUsers

(***************************************************************************)
(* Properties of the conversation.                                         *)
(***************************************************************************)
Running(h) == handlers[h].plan # <<>>

C7_OneHandlerPerUser ==
  \A g, h \in HandlerIds :
    (Running(g) /\ Running(h) /\ handlers[g].from = handlers[h].from) => g = h

\* The texts received from user u so far, in order.
RECURSIVE IncomingTexts(_)
IncomingTexts(log) ==
  IF log = <<>> THEN <<>>
  ELSE (IF Head(log).direction = "INCOMING" THEN <<Head(log).text>> ELSE <<>>)
       \o IncomingTexts(Tail(log))

\* C14: from step 1 with an empty accumulator, the answers "maison",
\* "250000", "Lyon", "pas important", "pas important" end in CONFIRMING with
\* the saved criteria HOUSE, 150000 to 250000, ["Lyon"], and the pass set
\* neither a minimum number of rooms nor a minimum surface.
C14_ExamplePass ==
  (/\ NoHandlerInFlight
   /\ IncomingTexts(conversations[1])
        = <<Word.w_maison, Text.t_250000, Text.m_Lyon, Text.t_pas_important, Text.t_pas_important>>)
  => /\ users[1].conversationState = "CONFIRMING"
     /\ users[1].criteria.propertyType = "HOUSE"
     /\ users[1].criteria.minPrice = 150000
     /\ users[1].criteria.maxPrice = 250000
     /\ users[1].criteria.locations = <<Word.s_Lyon>>
     /\ contexts[1] # 0
     /\ heap[contexts[1]].data.minRooms = Null
     /\ heap[contexts[1]].data.minSurface = Null

\* The five answers were handled, on the empty criteria row of a new user.
C14_Witness ==
  /\ NoHandlerInFlight
  /\ IncomingTexts(conversations[1])
       = <<Word.w_maison, Text.t_250000, Text.m_Lyon, Text.t_pas_important, Text.t_pas_important>>
  /\ users[1].criteria.minRooms = Null
  /\ users[1].criteria.minSurface = Null

\* C17: the save of a completed pass overwrites the criteria wholesale: the
\* stored type, price bounds, locations, minimum rooms and minimum surface
\* are exactly what this pass accumulated, a bound the pass skipped being
\* absent afterwards.
C17_SaveOverwritesWholesale ==
  [][\A h \in HandlerIds :
       (/\ Running(h)
        /\ Head(handlers[h].plan).op = "save"
        /\ handlers'[h] # handlers[h])
       => LET data   == Head(handlers[h].plan).data
              stored == users'[handlers[h].from].criteria
          IN  /\ stored.propertyType = data.propertyType
              /\ stored.minPrice = data.minPrice
              /\ stored.maxPrice = data.maxPrice
              /\ stored.locations = data.locations
              /\ stored.minRooms = data.minRooms
              /\ stored.minSurface = data.minSurface]_vars

\* The numbers written in a text: its maximal runs of digits, in order.
RECURSIVE NumbersIn(_)
NumbersIn(text) ==
  LET from == RunEnd(text, 1, FALSE) IN
  IF from > Len(text) THEN <<>>
  ELSE LET end == RunEnd(text, from, TRUE) IN
       <<parseInt(SubSeq(text, from, end - 1))>> \o NumbersIn(SubSeq(text, end, Len(text)))

\* Handler h takes the step that runs handleCriteriaCollection on the stored
\* context of its user, which is at the given step.
AnswersStep(h, step) ==
  /\ Running(h)
  /\ Head(handlers[h].plan).op = "dispatch"
  /\ handlers[h].state = "COLLECTING_CRITERIA"
  /\ handlers'[h] # handlers[h]
  /\ contexts[handlers[h].from] # 0
  /\ heap[contexts[handlers[h].from]].step = step
ContextOf(h) == heap[contexts[handlers[h].from]]
Reprompted(h) ==
  /\ Running(h)'
  /\ Head(handlers'[h].plan).op = "send"
  /\ Head(handlers'[h].plan).msg \in {"typeRetry", "priceRetry", "zoneRetry", "roomsRetry"}

\* C16: an answer that cannot be parsed never advances the collection: at
\* the price step a text without a number, at the location step a text
\* without a usable zone, at the rooms step a text with neither a number nor
\* a "no preference" word is answered by a re-prompt and the step stays.
C16_UnparseableAnswerStays ==
  [][\A h \in HandlerIds :
       LET text == handlers[h].text IN
       (\/ AnswersStep(h, 2) /\ NumbersIn(text) = <<>>
        \/ AnswersStep(h, 3) /\ ParsedLocations(text) = <<>>
        \/ /\ AnswersStep(h, 4)
           /\ NumbersIn(text) = <<>>
           /\ ~SaysNoPreference(trim(toLowerCase(text))))
       => /\ ContextOf(h)'.step = ContextOf(h).step
          /\ Reprompted(h)]_vars

\* C18: at the price step, for every text: one number n with a "max" keyword
\* gives the range 0 to n; one number n alone gives floor(0.6 n) to n; two
\* numbers give their minimum to their maximum; no number gives a re-prompt
\* and the step stays.
C18_PriceStep ==
  [][\A h \in HandlerIds :
       AnswersStep(h, 2) =>
         LET text  == handlers[h].text
             nums  == NumbersIn(text)
             after == ContextOf(h)'
         IN  /\ (Len(nums) = 1 /\ includes(toLowerCase(text), Word.w_max)) =>
                  after.data.minPrice = 0 /\ after.data.maxPrice = nums[1]
             /\ (Len(nums) = 1 /\ ~includes(toLowerCase(text), Word.w_max)) =>
                  /\ after.data.minPrice = (6 * nums[1]) \div 10
                  /\ after.data.maxPrice = nums[1]
             /\ Len(nums) = 2 =>
                  /\ after.data.minPrice = Min2(nums[1], nums[2])
                  /\ after.data.maxPrice = Max2(nums[1], nums[2])
             /\ Len(nums) = 0 => after.step = 2 /\ Reprompted(h)]_vars

\* Handler h, started for a user in one of the given states with a text
\* that is one of the given words once lowered and trimmed, takes a step;
\* takes its last step.
Lowered(text) == trim(toLowerCase(text))
StepOf(h, states, words) ==
  /\ Running(h)
  /\ handlers'[h] # handlers[h]
  /\ handlers[h].state \in states
  /\ Lowered(handlers[h].text) \in words
Completes(h, states, words) == StepOf(h, states, words) /\ ~Running(h)'
UserOf(h) == users[handlers[h].from]
AccumulatorReset(h) ==
  /\ contexts'[handlers[h].from] # 0
  /\ heap'[contexts'[handlers[h].from]] = NewContext
AllWords == {Lowered(t) : t \in CommandTexts \cup AnswerTexts \cup CollectAnswers}

\* C15: in CONFIRMING, a yes makes the user ACTIVE with isActive true; a no
\* or a modify command resets the accumulator to step 1 with empty data and
\* makes the user COLLECTING_CRITERIA; any other message leaves the
\* conversation state, isActive and the saved criteria as they were.
C15_Confirmation ==
  [][\A h \in HandlerIds :
       LET yes == {Word.w_oui, Word.w_yes, Word.w_ok, Word.w_parfait}
           no  == {Word.w_non, Word.w_no, Word.w_modifier, Word.w_change}
       IN
       /\ Completes(h, {"CONFIRMING"}, yes) =>
            UserOf(h)'.conversationState = "ACTIVE" /\ UserOf(h)'.isActive
       /\ Completes(h, {"CONFIRMING"}, no) =>
            /\ UserOf(h)'.conversationState = "COLLECTING_CRITERIA"
            /\ AccumulatorReset(h)
       /\ StepOf(h, {"CONFIRMING"}, AllWords \ (yes \cup no)) =>
            /\ UserOf(h)'.conversationState = "CONFIRMING"
            /\ UserOf(h)'.isActive = UserOf(h).isActive
            /\ UserOf(h)'.criteria = UserOf(h).criteria
       /\ StepOf(h, {"CONFIRMING"}, AllWords) =>
            UserOf(h)'.criteria = UserOf(h).criteria]_vars

\* A user in CONFIRMING with alerts off sent something else, was reminded,
\* then said yes and is ACTIVE with alerts on.
C15_Witness ==
  /\ NoHandlerInFlight
  /\ IncomingTexts(conversations[1]) = <<Text.m_bonjour, Text.m_oui>>
  /\ \E i \in 1..Len(conversations[1]) : conversations[1][i].msg = "confirmRetry"
  /\ users[1].conversationState = "ACTIVE"
  /\ users[1].isActive

\* C19: in IDLE and in ACTIVE, each of the commands modifier, change and
\* critères, whatever its case, makes the user COLLECTING_CRITERIA and resets
\* the accumulator to step 1 with empty data.
C19_ModifyCommands ==
  [][\A h \in HandlerIds :
       Completes(h, {"IDLE", "ACTIVE"}, {Word.w_modifier, Word.w_change, Word.w_criteres}) =>
         /\ UserOf(h)'.conversationState = "COLLECTING_CRITERIA"
         /\ AccumulatorReset(h)]_vars

\* C20: pause or stop in IDLE or ACTIVE changes the conversation state only,
\* to PAUSED: isActive, the saved criteria and the accumulator stay.
C20_PauseChangesStateOnly ==
  [][\A h \in HandlerIds :
       /\ StepOf(h, {"IDLE", "ACTIVE"}, {Word.w_pause, Word.w_stop}) =>
            /\ UserOf(h)' = [UserOf(h) EXCEPT
                               !.conversationState = UserOf(h)'.conversationState]
            /\ contexts' = contexts
            /\ heap' = heap
       /\ Completes(h, {"IDLE", "ACTIVE"}, {Word.w_pause, Word.w_stop}) =>
            UserOf(h)'.conversationState = "PAUSED"]_vars

\* An ACTIVE user with alerts on and a context left by the last pass sent
\* "STOP": PAUSED, alerts still on, the context still there.
C20_Witness ==
  /\ NoHandlerInFlight
  /\ IncomingTexts(conversations[1]) = <<Text.m_STOP>>
  /\ \E i \in 1..Len(conversations[1]) : conversations[1][i].msg = "paused"
  /\ users[1].conversationState = "PAUSED"
  /\ users[1].isActive
  /\ users[1].criteria = CriteriaHouseLyon
  /\ contexts[1] # 0
  /\ heap[contexts[1]] = LeftoverContext

\* C21: every inbound message, the first message of an unknown user
\* included, is in the conversation log as an INCOMING entry before its state
\* handler runs, hence when its handling ends.
Logged(h) ==
  \E i \in 1..Len(conversations[handlers[h].from]) :
     /\ conversations[handlers[h].from][i].direction = "INCOMING"
     /\ conversations[handlers[h].from][i].text = handlers[h].text
C21_InboundLoggedBeforeHandling ==
  [][\A h \in HandlerIds :
       (Running(h) /\ handlers'[h] # handlers[h]) =>
         /\ Head(handlers[h].plan).op = "dispatch" => Logged(h)
         /\ ~Running(h)' => Logged(h)]_vars

\* C22: an OUTGOING entry is written only after the delivery call of that
\* message succeeded; after a failed delivery call the invocation writes no
\* OUTGOING entry and makes no second call for the message, the failure stays
\* inside sendMessage, and the state change of the handler takes effect (the
\* handling of a first message ends with the user in COLLECTING_CRITERIA
\* and a new context, whatever the welcome's delivery did).
OutgoingAppended(u) ==
  /\ Len(conversations'[u]) = Len(conversations[u]) + 1
  /\ conversations'[u][Len(conversations'[u])].direction = "OUTGOING"
C22_OutboundLoggedAfterDelivery ==
  [][\A h \in HandlerIds :
       (Running(h) /\ handlers'[h] # handlers[h]) =>
         LET u   == handlers[h].from
             op  == Head(handlers[h].plan)
             was == handlers[h].delivery
         IN  /\ OutgoingAppended(u) =>
                  /\ was.ok
                  /\ was.msg = conversations'[u][Len(conversations'[u])].msg
             /\ (was.msg # "none" /\ ~was.ok) =>
                  /\ ~OutgoingAppended(u)
                  /\ op.op # "send"
             /\ (~Running(h)' /\ handlers[h].state = "none") =>
                  /\ users'[u].conversationState = "COLLECTING_CRITERIA"
                  /\ AccumulatorReset(h)]_vars

\* The welcome of a new user could not be delivered: nothing is in the log,
\* and the user is in COLLECTING_CRITERIA with a new context.
C22_Witness ==
  /\ NoHandlerInFlight
  /\ received = 1
  /\ \E u \in UserIds :
       /\ users[u].exists
       /\ users[u].conversationState = "COLLECTING_CRITERIA"
       /\ conversations[u] = <<>>
       /\ contexts[u] # 0


\* The step of the collection of user u: the step of the context the map
\* holds for the user, 0 when it holds none.
Cursor(u) == IF contexts[u] = 0 THEN 0 ELSE heap[contexts[u]].step

\* Handler h, started for user u in another state than COLLECTING_CRITERIA,
\* starts a collection: the cursor is put at step 1.
Restarts(h, u) ==
  /\ handlers[h].from = u /\ handlers'[h] # handlers[h]
  /\ handlers[h].state # "COLLECTING_CRITERIA"
  /\ Cursor(u)' = 1

\* C30: the cursor of a collection only moves from a step to the next, from
\* 1 up to 5, one step for one answer handled, and the user becomes
\* CONFIRMING from step 5 only; the stored Criteria are written only by the
\* answer of step 5 and are as they were while the cursor is at 1 to 4.
C30_CursorAndSave ==
  [][\A u \in UserIds :
       /\ Cursor(u)' # Cursor(u) =>
            \/ \E h \in HandlerIds : Restarts(h, u)
            \/ /\ Cursor(u) \in 1..4
               /\ Cursor(u)' = Cursor(u) + 1
               /\ \E h \in HandlerIds : handlers[h].from = u /\ AnswersStep(h, Cursor(u))
       /\ users'[u].criteria # users[u].criteria =>
            /\ Cursor(u) = 5
            /\ \E h \in HandlerIds :
                 /\ handlers[h].from = u /\ handlers'[h] # handlers[h]
                 /\ handlers[h].state = "COLLECTING_CRITERIA"
       /\ (users'[u].conversationState = "CONFIRMING"
           /\ users[u].conversationState = "COLLECTING_CRITERIA") => Cursor(u) = 5]_vars

\* Handler h, started for a number without a User row, takes its last step
\* after having created the user.
FirstContactEnds(h) ==
  /\ Running(h) /\ ~Running(h)'
  /\ handlers[h].state = "none"
  /\ Head(handlers[h].plan).op \notin {"find", "create", "createCriteria"}

\* C31: the first message of an unknown sender creates one User with empty
\* Criteria (BOTH, no bounds, no locations), has the welcome sent, and leaves
\* the user in COLLECTING_CRITERIA with the cursor at step 1 and an empty
\* accumulator, whatever the text of the message.
C31_FirstContact ==
  [][\A h \in HandlerIds, u \in UserIds :
       /\ (Running(h) /\ handlers'[h] # handlers[h] /\ handlers[h].from = u
           /\ ~users[u].exists) =>
            \A v \in UserIds \ {u} : users'[v] = users[v]
       /\ (FirstContactEnds(h) /\ handlers[h].from = u) =>
            /\ users'[u].exists /\ users'[u].hasCriteria
            /\ users'[u].criteria = EmptyCriteria
            /\ users'[u].conversationState = "COLLECTING_CRITERIA"
            /\ handlers[h].delivery.msg = "welcome"
            /\ Cursor(u)' = 1
            /\ heap'[contexts'[u]] = NewContext]_vars

\* The first message of a sender was "maison": the user is created with
\* empty Criteria, welcomed, and the collection waits at step 1 with nothing
\* collected.
C31_Witness ==
  /\ NoHandlerInFlight
  /\ received = 1
  /\ \E u \in UserIds :
       /\ users[u].exists /\ users[u].criteria = EmptyCriteria
       /\ users[u].conversationState = "COLLECTING_CRITERIA"
       /\ conversations[u] = <<[direction |-> "OUTGOING", text |-> <<>>, msg |-> "welcome"]>>
       /\ Cursor(u) = 1 /\ heap[contexts[u]].data = EmptyData

\* C32: the accumulator lives only during a collection: once the answer of
\* step 5 has been handled and the user is CONFIRMING, the contexts map holds
\* no entry for the user.
C32_NoContextAfterCompletion ==
  \A u \in UserIds :
    (NoHandlerInFlight /\ users[u].conversationState = "CONFIRMING") => contexts[u] = 0

\* C38: the flow writes minimum bounds only, so when a collection pass has
\* saved the criteria, the rooms score of every listing is 15 if the user
\* skipped the rooms step of that pass and 0 if a minimum was given, and the
\* surface score is 20 or 0 likewise, whatever the listing's rooms and surface.
C38_MinimumOnlyScores ==
  \A u \in UserIds :
    (/\ NoHandlerInFlight
     /\ users[u].conversationState = "CONFIRMING"
     /\ contexts[u] # 0) =>
      LET data     == heap[contexts[u]].data
          criteria == users[u].criteria
      IN  /\ criteria.maxRooms = Null
          /\ criteria.maxSurface = Null
          /\ \A listing \in ScoredListings :
               LET score == calculateMatchScore(listing, criteria) IN
               /\ score.rooms = (IF data.minRooms = Null THEN RoomsWeight ELSE 0)
               /\ score.surface = (IF data.minSurface = Null THEN SurfaceWeight ELSE 0)

\* The IN entries of the conversation log of user u.
Incoming(u) == SelectSeq(conversations[u], LAMBDA e : e.direction = "INCOMING")

\* C39: the admin operation "send message to user" only delivers a text: no
\* step of it changes the user's conversationState, isActive, saved criteria
\* or collection accumulator, and none adds an IN entry to the user's log.
C39_AdminMessageOnlyDelivers ==
  [][\A u \in UserIds :
       /\ users'[u].conversationState = users[u].conversationState
       /\ users'[u].isActive = users[u].isActive
       /\ users'[u].criteria = users[u].criteria
       /\ contexts'[u] = contexts[u]
       /\ contexts[u] # 0 => heap'[contexts[u]] = heap[contexts[u]]
       /\ Incoming(u)' = Incoming(u)]_vars

\* C40: after stop(), whatever start() and stop() calls came before, no task
\* that start() scheduled is active, and getStatus() reports scraperRunning,
\* enrichRunning and matchRunning false.
C40_StopStopsEverything ==
  [][(job' # job /\ Len(job'.tasks) = Len(job.tasks)) =>
       /\ \A k \in 1..Len(job'.tasks) : ~job'.tasks[k].active
       /\ getStatus' = [scraperRunning |-> FALSE, enrichRunning |-> FALSE,
                        matchRunning |-> FALSE]]_vars
====
